---- MODULE Spec2Model ----
(***************************************************************************)
(* The suggestions cog of oxide-bot (src/cogs/suggestions.py) as a state   *)
(* machine: the three SQLite tables of databases/suggestions.db, the       *)
(* messages the bot renders, and the command handlers as tasks of one      *)
(* asyncio event loop.  A task runs from one await to the next as one      *)
(* atomic step; every database statement is a step of its own.             *)
(***************************************************************************)
EXTENDS Integers, Sequences, FiniteSets, TLC

\* ------------------------------------------------------------------ world

\* Guilds, their text channels, members and roles known to Discord.
Guilds == {"g1", "g2"}
Channels == {"c1", "c2", "c3"}
GuildOf(c) == IF c = "c3" THEN "g2" ELSE "g1"
ChannelsOf(g) == {c \in Channels : GuildOf(c) = g}
Users == {"u1", "u2"}
Roles == {"r1", "r2"}
RolesOf(g) == IF g = "g1" THEN {"r1"} ELSE {"r2"}
Reasons == {"spam"}
Notes == {"great"}

\* Python None / SQL NULL.
NULL == "NULL"

\* Handler tasks that can be in flight at once.
Tasks == {1, 2}

\* Commands and settings submits issued in a run.
MaxCmds == 3

\* class SuggestionStatusType
PENDING == 0
ACCEPTED == 1
DECLINED == 2
CONSIDERED == 3

\* SETTINGS: the recognized settings, in rendering order.
SETTINGS == <<"allow_anonymous", "action_notification_enabled",
              "allow_attachments", "allow_edits", "enabled">>
SettingNames == {SETTINGS[i] : i \in 1..Len(SETTINGS)}

VARIABLES
    config,     \* table config: sequence of rows in rowid order
    blacklist,  \* table blacklist: sequence of rows in rowid order
    store,      \* table store: sequence of rows in rowid order
    messages,   \* suggestion messages sent by the bot; message_id = index
    notices,    \* private notices delivered to suggestion authors
    env,        \* Discord's state: reachable channels, existing roles
    task,       \* the handler tasks in flight: position (pc), arguments, locals
    response,   \* the command that returned last and what it told its invoker
    started,    \* number of commands and settings submits issued so far
    hist        \* history of completed calls, read by the properties only

vars == <<config, blacklist, store, messages, notices, env, task, response, started, hist>>

\* ------------------------------------------------------------ sequences

SeqToSet(s) == {s[i] : i \in 1..Len(s)}

RemoveAt(s, i) == SubSeq(s, 1, i - 1) \o SubSeq(s, i + 1, Len(s))

\* fetch_one: the first row of the result, or None (NoRow).
NoRow == [none |-> TRUE]
FetchOne(rows) == IF rows = <<>> THEN NoRow ELSE Head(rows)

\* ----------------------------------------------------------- table config

\* INSERT INTO config (guild_id, channel_id): the other columns take the
\* defaults of the CREATE TABLE statement.
NewConfigRow(g, c) ==
    [channel_id |-> c, guild_id |-> g, role_id |-> NULL,
     allow_anonymous |-> 0, action_notification_enabled |-> 0,
     allow_attachments |-> 0, allow_edits |-> 0, enabled |-> 1]

\* SELECT * FROM config WHERE channel_id = ? and guild_id = ?
ConfigByChannelGuild(c, g) ==
    LET Match(r) == r.channel_id = c /\ r.guild_id = g
    IN  FetchOne(SelectSeq(config, Match))

\* SELECT * FROM config WHERE channel_id = ?
ConfigByChannel(c) ==
    LET Match(r) == r.channel_id = c
    IN  FetchOne(SelectSeq(config, Match))

\* The config table declared without its primary key.
NoPrimaryKey(c) == TRUE

\* channel_id INT PRIMARY KEY: an INSERT of a channel_id the table holds
\* raises sqlite3.IntegrityError and inserts nothing.
PrimaryKeyFree(c) == \A i \in 1..Len(config) : config[i].channel_id # c

\* The UPDATE without its WHERE clause.
ConfigUpdateEveryRow(c, column, value) ==
    [i \in 1..Len(config) |-> [config[i] EXCEPT ![column] = value]]

\* UPDATE config SET <column> = ? WHERE channel_id = ?
\* An upsert in place of the UPDATE: the row is created when none matches.
ConfigUpsert(c, column, value) ==
    IF \E i \in 1..Len(config) : config[i].channel_id = c
    THEN [i \in 1..Len(config) |->
             IF config[i].channel_id = c
             THEN [config[i] EXCEPT ![column] = value]
             ELSE config[i]]
    ELSE Append(config, [NewConfigRow(NULL, c) EXCEPT ![column] = value])

ConfigUpdate(c, column, value) ==
    [i \in 1..Len(config) |->
        IF config[i].channel_id = c
        THEN [config[i] EXCEPT ![column] = value]
        ELSE config[i]]

\* DELETE FROM config WHERE channel_id = ? and guild_id = ?
ConfigDelete(c, g) ==
    LET Keep(r) == ~(r.channel_id = c /\ r.guild_id = g)
    IN  SelectSeq(config, Keep)

\* -------------------------------------------------------- table blacklist

\* SELECT reason FROM blacklist WHERE guild_id = ? AND user_id = ? AND channel_id = ?
BlacklistByGuildUserChannel(g, u, c) ==
    LET Match(r) == r.guild_id = g /\ r.user_id = u /\ r.channel_id = c
    IN  FetchOne(SelectSeq(blacklist, Match))

\* SELECT * FROM blacklist WHERE channel_id = ? and user_id = ?
BlacklistByChannelUser(c, u) ==
    LET Match(r) == r.channel_id = c /\ r.user_id = u
    IN  FetchOne(SelectSeq(blacklist, Match))

\* UPDATE blacklist SET reason = ? where user_id = ? and channel_id = ?
BlacklistUpdate(reason, u, c) ==
    [i \in 1..Len(blacklist) |->
        IF blacklist[i].user_id = u /\ blacklist[i].channel_id = c
        THEN [blacklist[i] EXCEPT !.reason = reason]
        ELSE blacklist[i]]

\* DELETE FROM blacklist WHERE channel_id = ? and user_id = ?
\* A DELETE that matches on the user alone.
BlacklistDeleteUser(c, u) ==
    LET Keep(r) == r.user_id # u
    IN  SelectSeq(blacklist, Keep)

BlacklistDelete(c, u) ==
    LET Keep(r) == ~(r.channel_id = c /\ r.user_id = u)
    IN  SelectSeq(blacklist, Keep)

\* ------------------------------------------------------------ table store

\* The status column is declared TEXT: SQLite stores the integer bound to
\* it as its decimal text, and the handler reads it back through int().
StatusText(status) ==
    CASE status = PENDING -> "0"
      [] status = ACCEPTED -> "1"
      [] status = DECLINED -> "2"
      [] status = CONSIDERED -> "3"

ParseInt(text) ==
    CASE text = "0" -> 0
      [] text = "1" -> 1
      [] text = "2" -> 2
      [] text = "3" -> 3

\* The count taken over the suggestions of every guild.
StoreOfEveryGuild(g) == store

\* The lookup by id alone, whatever the guild.
StoreByIdAlone(g, id) ==
    LET Match(r) == r.id = id
    IN  FetchOne(SelectSeq(store, Match))

\* SELECT id FROM store WHERE guild_id = ?
StoreByGuild(g) ==
    LET Match(r) == r.guild_id = g
    IN  SelectSeq(store, Match)

\* SELECT * FROM store WHERE guild_id = ? AND id = ?
StoreByGuildId(g, id) ==
    LET Match(r) == r.guild_id = g /\ r.id = id
    IN  FetchOne(SelectSeq(store, Match))

\* UPDATE store SET status = .., action_updated_at = ?, action_note = ?
\* WHERE guild_id = ? AND id = ?
\* The same UPDATE without the action_updated_at and action_note columns.
StoreUpdateStatusOnly(status, now, note, g, id) ==
    [i \in 1..Len(store) |->
        IF store[i].guild_id = g /\ store[i].id = id
        THEN [store[i] EXCEPT !.status = StatusText(status)]
        ELSE store[i]]

StoreUpdate(status, now, note, g, id) ==
    [i \in 1..Len(store) |->
        IF store[i].guild_id = g /\ store[i].id = id
        THEN [store[i] EXCEPT !.status = StatusText(status),
                              !.action_updated_at = now, !.action_note = note]
        ELSE store[i]]

\* The footer update_suggestion_status writes for a status.
StatusFriendly(status) ==
    IF status = ACCEPTED THEN "Accepted"
    ELSE IF status = DECLINED THEN "Declined"
    ELSE "Considered"

\* member.roles: u1 holds every role of the guilds, u2 holds none.
MemberRoles(u) == IF u = "u1" THEN Roles ELSE {}

\* ------------------------------------------------------------------ tasks

Idle ==
    [pc |-> "idle", cmd |-> NULL, result |-> NULL,
     guild |-> NULL, user |-> NULL, ichan |-> NULL, channel |-> NULL,
     options |-> <<>>, role |-> NULL,
     labels |-> <<>>, modal |-> NULL, placeholder |-> NULL, sleeping |-> 0,
     attachment |-> FALSE, data |-> NoRow, is_anonymous |-> 0,
     suggestion_id |-> 0, message |-> 0,
     status |-> PENDING, note |-> NULL, suggestion |-> NoRow, notify |-> 0,
     target |-> NULL, reason |-> NULL]

\* No command has returned yet.
NoResponse ==
    [cmd |-> NULL, result |-> NULL, guild |-> NULL, channel |-> NULL,
     suggestion_id |-> 0, status |-> PENDING]

\* The handler returns (or raises) having told its invoker r.
Finish(t, r) == [t EXCEPT !.pc = "done", !.result = r]

\* Task p runs to its next await and is then as t says; a handler that
\* returned leaves the event loop, and its last message stays on screen.
Step(p, t) ==
    /\ task' = [task EXCEPT ![p] = IF t.pc = "done" THEN Idle ELSE t]
    /\ response' = IF t.pc = "done"
                   THEN [cmd |-> t.cmd, result |-> t.result, guild |-> t.guild,
                         channel |-> t.channel, suggestion_id |-> t.suggestion_id,
                         status |-> t.status]
                   ELSE response

\* Suggestions.settings after its panel timed out: "while True: await
\* view.wait()" on a finished view never suspends, so the event loop runs
\* nothing else from then on.
LoopBlocked == \E q \in Tasks : task[q].pc = "spin"

\* Task p is suspended at l and the event loop can resume it.
At(p, l) == task[p].pc = l /\ ~LoopBlocked

\* A command can be dispatched as task p: the first free slot is taken.
Free(p) ==
    /\ task[p].pc = "idle"
    /\ \A q \in Tasks : q < p => task[q].pc # "idle"
    /\ started < MaxCmds
    /\ ~LoopBlocked

\* ------------------------------------------------------- channel selection

\* ChannelSelection.setup: the configured channel ids of the guild, looped
\* over while unreachable ones are removed from the very list being looped
\* over (the element after a removed one is skipped).
RECURSIVE SetupLoop(_, _, _)
SetupLoop(channel_ids, i, options) ==
    IF i > Len(channel_ids)
    THEN [channel_ids |-> channel_ids, options |-> options]
    ELSE IF channel_ids[i] \in env.channels
    THEN SetupLoop(channel_ids, i + 1, Append(options, channel_ids[i]))
    ELSE SetupLoop(RemoveAt(channel_ids, i), i + 1, options)

ChannelSelectionSetup(g) ==
    LET Match(r) == r.guild_id = g
        res == SelectSeq(config, Match)
    IN  SetupLoop([i \in 1..Len(res) |-> res[i].channel_id], 1, <<>>)

\* Where each command goes on once prompt_channel_select returned a channel.
FirstPc(cmd) ==
    CASE cmd = "remove_setup" -> "confirm"
      [] cmd = "settings" -> "settings_setup"
      [] cmd = "restrict" -> "restrict"
      [] cmd = "unrestrict" -> "unrestrict"
      [] cmd = "suggest" -> "suggest_blacklist"
      [] cmd = "blacklist_add" -> "blacklist_check"
      [] cmd = "blacklist_remove" -> "blacklist_delete"

\* prompt_channel_select up to its first wait: no candidate, one candidate
\* (resolved by guild.get_channel), or the picker is sent.
PromptChannelSelect(t) ==
    LET s == ChannelSelectionSetup(t.guild)
    IN  IF Len(s.channel_ids) = 0 THEN Finish(t, "NothingConfigured")
        ELSE IF Len(s.channel_ids) = 1
        THEN IF s.channel_ids[1] \in env.channels
             THEN [t EXCEPT !.pc = FirstPc(t.cmd), !.channel = s.channel_ids[1]]
             ELSE Finish(t, "ChannelNotFound")
        ELSE [t EXCEPT !.pc = "picker", !.options = s.options]

\* ChannelSelection.channel_select by the invoker: the view stops with the
\* chosen channel, or with None when the guild no longer has it.
SelectChoose(p, c) ==
    /\ At(p, "picker")
    /\ c \in SeqToSet(task[p].options)
    /\ LET t == task[p]
       IN  Step(p,
               IF c \in env.channels
               THEN [t EXCEPT !.pc = FirstPc(t.cmd), !.channel = c, !.options = <<>>]
               ELSE Finish(t, "ChannelNotFound"))
    /\ UNCHANGED <<config, blacklist, store, messages, notices, env, started, hist>>

\* prompt_channel_select without its test of view.canceled: a canceled
\* picker goes on with its first option.
SelectCancelGoesOn(p) ==
    /\ At(p, "picker")
    /\ LET t == task[p]
       IN  Step(p, [t EXCEPT !.pc = FirstPc(t.cmd), !.channel = t.options[1],
                             !.options = <<>>])
    /\ UNCHANGED <<config, blacklist, store, messages, notices, env, started, hist>>

\* ChannelSelection.cancel_button by the invoker.
SelectCancel(p) ==
    /\ At(p, "picker")
    /\ Step(p, Finish(task[p], "Canceled"))
    /\ UNCHANGED <<config, blacklist, store, messages, notices, env, started, hist>>

\* The picker's timeout: view.wait() returns True.
SelectTimeout(p) ==
    /\ At(p, "picker")
    /\ Step(p, Finish(task[p], "TimedOut"))
    /\ UNCHANGED <<config, blacklist, store, messages, notices, env, started, hist>>

\* The member who runs the /suggestions commands; /suggest is run by the
\* members of Users. Anyone of them can press the components of a view.
Moderator == "m1"

Actors == Users \cup {Moderator}

\* interaction.user of the command behind task t: the author of its views.
Author(t) == IF t.cmd = "suggest" THEN t.user ELSE Moderator

\* A check that lets every actor through.
AnyoneInteracts(t, actor) == TRUE

\* ChannelSelection.interaction_check on an interaction of actor.
SelectionInteractionCheck(t, actor) == actor = Author(t)

\* interaction_check returned False: the actor is told "You cannot interact
\* with this." and the callback is not run, so the view keeps waiting.
Refused(p) ==
    /\ response' = [cmd |-> task[p].cmd, result |-> "CannotInteract",
                    guild |-> task[p].guild, channel |-> NULL,
                    suggestion_id |-> 0, status |-> PENDING]
    /\ UNCHANGED <<config, blacklist, store, messages, notices, env, task, started, hist>>

\* An actor picks option c of the picker of task p.
PickerChoice(p, actor, c) ==
    /\ At(p, "picker")
    /\ c \in SeqToSet(task[p].options)
    /\ IF SelectionInteractionCheck(task[p], actor) THEN SelectChoose(p, c) ELSE Refused(p)

\* An actor presses Cancel on the picker of task p.
PickerCancel(p, actor) ==
    /\ At(p, "picker")
    /\ IF SelectionInteractionCheck(task[p], actor) THEN SelectCancel(p) ELSE Refused(p)

\* ------------------------------------------------------ /suggestions setup

\* setup written as INSERT OR REPLACE, with no check of an existing row.
SetupInsertOrReplace(p, c) ==
    /\ Free(p)
    /\ LET g == GuildOf(c)
           t == [Idle EXCEPT !.cmd = "setup", !.guild = g, !.channel = c]
       IN  /\ config' = Append(ConfigDelete(c, g), NewConfigRow(g, c))
           /\ Step(p, Finish(t, "Configured"))
    /\ started' = started + 1
    /\ UNCHANGED <<blacklist, store, messages, notices, env, hist>>

\* Suggestions.setup, the SELECT and the check of its result.
Setup(p, c) ==
    /\ Free(p)
    /\ LET g == GuildOf(c)
           t == [Idle EXCEPT !.cmd = "setup", !.guild = g, !.channel = c]
           check == ConfigByChannelGuild(c, g)
       IN  Step(p,
               IF check # NoRow THEN Finish(t, "AlreadyConfigured")
               ELSE [t EXCEPT !.pc = "setup_insert"])
    /\ started' = started + 1
    /\ UNCHANGED <<config, blacklist, store, messages, notices, env, hist>>

\* Suggestions.setup, the INSERT.
SetupInsert(p) ==
    /\ At(p, "setup_insert")
    /\ IF PrimaryKeyFree(task[p].channel)
       THEN /\ config' = Append(config, NewConfigRow(task[p].guild, task[p].channel))
            /\ Step(p, Finish(task[p], "Configured"))
       ELSE /\ config' = config
            /\ Step(p, Finish(task[p], "IntegrityError"))
    /\ UNCHANGED <<blacklist, store, messages, notices, env, started, hist>>

\* ------------------------------------------------ /suggestions remove-setup

\* Suggestions.remove_setup up to the channel selection.
RemoveSetup(p, g) ==
    /\ Free(p)
    /\ Step(p, PromptChannelSelect([Idle EXCEPT !.cmd = "remove_setup", !.guild = g]))
    /\ started' = started + 1
    /\ UNCHANGED <<config, blacklist, store, messages, notices, env, hist>>

\* remove_setup taking every result but False as a confirmation.
RemoveSetupUnlessCanceled(p, confirmed) ==
    /\ At(p, "confirm")
    /\ IF confirmed # "False"
       THEN /\ config' = ConfigDelete(task[p].channel, task[p].guild)
            /\ Step(p, Finish(task[p], "Removed"))
       ELSE /\ config' = config
            /\ Step(p, Finish(task[p], "OperationCanceled"))
    /\ UNCHANGED <<blacklist, store, messages, notices, env, started, hist>>

\* remove_setup deleting the suggestions of the channel with its config row.
RemoveSetupCascade(p, confirmed) ==
    /\ At(p, "confirm")
    /\ IF confirmed = "True"
       THEN /\ config' = ConfigDelete(task[p].channel, task[p].guild)
            /\ store' = SelectSeq(store, LAMBDA r : r.channel_id # task[p].channel)
            /\ Step(p, Finish(task[p], "Removed"))
       ELSE /\ config' = config
            /\ store' = store
            /\ Step(p, Finish(task[p], IF confirmed = NULL
                                       THEN "TimedOutThenOperationCanceled"
                                       ELSE "OperationCanceled"))
    /\ UNCHANGED <<blacklist, messages, notices, env, started, hist>>

\* Confirmation.confirm_button / cancel_button / timeout, and what
\* remove_setup does with view.confirmed: "if view.confirmed is None" edits
\* the message to "Timed out."; "if not view.confirmed" then takes both
\* False and None to the cancel message, True to the DELETE.
RemoveSetupConfirmed(p, confirmed) ==
    /\ At(p, "confirm")
    /\ IF confirmed = "True"
       THEN /\ config' = ConfigDelete(task[p].channel, task[p].guild)
            /\ Step(p, Finish(task[p], "Removed"))
       ELSE /\ config' = config
            /\ Step(p, Finish(task[p], IF confirmed = NULL
                                       THEN "TimedOutThenOperationCanceled"
                                       ELSE "OperationCanceled"))
    /\ UNCHANGED <<blacklist, store, messages, notices, env, started, hist>>

\* An actor presses Confirm ("True") or Cancel ("False") on the Confirmation
\* view of task p: the view has no interaction_check, so the callback runs
\* for whoever pressed.
ConfirmationPress(p, actor, confirmed) ==
    /\ confirmed \in {"True", "False"}
    /\ RemoveSetupConfirmed(p, confirmed)

\* The Confirmation view of task p timed out: view.confirmed is still None.
ConfirmationTimeout(p) == RemoveSetupConfirmed(p, NULL)

\* --------------------------------------------------- /suggestions settings

SETTING_PLACEHOLDER_TEXT(toggle) == IF toggle = 1 THEN "ENABLED" ELSE "DISABLED"

\* Suggestions.settings up to the channel selection.
Settings(p, g) ==
    /\ Free(p)
    /\ Step(p, PromptChannelSelect([Idle EXCEPT !.cmd = "settings", !.guild = g]))
    /\ started' = started + 1
    /\ UNCHANGED <<config, blacklist, store, messages, notices, env, hist>>

\* SuggestionSettings.setup and the panel being shown: one label per
\* setting from the row read, or the error message when there is no row.
SettingsSetup(p) ==
    /\ At(p, "settings_setup")
    /\ LET t == task[p]
           data == ConfigByChannel(t.channel)
       IN  Step(p,
               IF data = NoRow THEN Finish(t, "ErrorOccured")
               ELSE [t EXCEPT !.pc = "panel", !.placeholder = "Settings",
                              !.labels = [i \in 1..Len(SETTINGS) |->
                                  SETTING_PLACEHOLDER_TEXT(data[SETTINGS[i]])]])
    /\ UNCHANGED <<config, blacklist, store, messages, notices, env, started, hist>>

\* SuggestionSettings.settings_select by the invoker: the modal of the
\* chosen setting is sent.
SettingsSelect(p, value) ==
    /\ At(p, "panel")
    /\ Step(p, [task[p] EXCEPT !.modal = value])
    /\ UNCHANGED <<config, blacklist, store, messages, notices, env, started, hist>>

\* SuggestionSettingsModal.on_submit with SuggestionSettings.update up to
\* its sleep: the UPDATE of the column, then the label and the placeholder.
SettingsModalSubmit(p, value) ==
    /\ At(p, "panel")
    /\ task[p].modal # NULL
    /\ started < MaxCmds
    /\ LET t == task[p]
       IN  /\ config' = ConfigUpdate(t.channel, t.modal, value)
           /\ Step(p,
                  [t EXCEPT !.modal = NULL, !.placeholder = "Acknowledged",
                            !.sleeping = @ + 1,
                            !.labels = [i \in 1..Len(SETTINGS) |->
                                IF SETTINGS[i] = t.modal
                                THEN SETTING_PLACEHOLDER_TEXT(value)
                                ELSE t.labels[i]]])
    /\ started' = started + 1
    /\ UNCHANGED <<blacklist, store, messages, notices, env, hist>>

\* SuggestionSettings.update after asyncio.sleep(2): the idle placeholder.
SettingsUpdateWake(p) ==
    /\ At(p, "panel")
    /\ task[p].sleeping > 0
    /\ Step(p, [task[p] EXCEPT !.placeholder = "Settings", !.sleeping = @ - 1])
    /\ UNCHANGED <<config, blacklist, store, messages, notices, env, started, hist>>

\* SuggestionSettings.close_button by the invoker; settings() then deletes
\* the panel's message and returns.
SettingsClose(p) ==
    /\ At(p, "panel")
    /\ Step(p, Finish(task[p], "Closed"))
    /\ UNCHANGED <<config, blacklist, store, messages, notices, env, started, hist>>

\* close_button pressed while the modal sent by settings_select is still
\* open: settings() deletes the panel's message and returns, the modal is a
\* view of its own and stays open.
SettingsCloseModalOpen(p) ==
    /\ At(p, "panel")
    /\ task[p].modal # NULL
    /\ task' = [task EXCEPT ![p] = [@ EXCEPT !.pc = "ended", !.result = "Closed",
                                              !.placeholder = NULL, !.sleeping = 0]]
    /\ response' = [cmd |-> "settings", result |-> "Closed", guild |-> task[p].guild,
                    channel |-> task[p].channel,
                    suggestion_id |-> task[p].suggestion_id,
                    status |-> task[p].status]
    /\ UNCHANGED <<config, blacklist, store, messages, notices, env, started, hist>>

\* SuggestionSettingsModal.on_submit after the panel was closed: the UPDATE
\* of the column runs as ever, then parent.update raises on the edit of the
\* deleted message.
SettingsModalSubmitEnded(p, value) ==
    /\ At(p, "ended")
    /\ started < MaxCmds
    /\ config' = ConfigUpdate(task[p].channel, task[p].modal, value)
    /\ Step(p, Finish(task[p], "Exception"))
    /\ started' = started + 1
    /\ UNCHANGED <<blacklist, store, messages, notices, env, hist>>

\* The modal left open after the panel was closed is dismissed unsubmitted.
SettingsModalDismiss(p) ==
    /\ At(p, "ended")
    /\ task' = [task EXCEPT ![p] = Idle]
    /\ UNCHANGED <<config, blacklist, store, messages, notices, env, response,
                   started, hist>>

\* The panel's timeout: view.wait() returns with view.closed False and every
\* later view.wait() returns at once.
SettingsTimeout(p) ==
    /\ At(p, "panel")
    /\ Step(p, [task[p] EXCEPT !.pc = "spin"])
    /\ UNCHANGED <<config, blacklist, store, messages, notices, env, started, hist>>

\* ----------------------------------------- /suggestions restrict, unrestrict

\* Suggestions.restrict up to the channel selection; role may be omitted.
Restrict(p, g, role) ==
    /\ Free(p)
    /\ role \in RolesOf(g) \cup {NULL}
    /\ Step(p, PromptChannelSelect([Idle EXCEPT !.cmd = "restrict", !.guild = g,
                                                !.role = role]))
    /\ started' = started + 1
    /\ UNCHANGED <<config, blacklist, store, messages, notices, env, hist>>

\* Suggestions.restrict after the selection: without a role the stored
\* role is read and reported, with one it is written.
RestrictApply(p) ==
    /\ At(p, "restrict")
    /\ LET t == task[p]
           data == ConfigByChannel(t.channel)
       IN  IF t.role = NULL
           THEN /\ config' = config
                /\ Step(p,
                       IF data = NoRow \/ data.role_id \notin env.roles
                       THEN Finish(t, "NoRestriction")
                       ELSE Finish(t, "CurrentRestriction"))
           ELSE /\ config' = ConfigUpdate(t.channel, "role_id", t.role)
                /\ Step(p, Finish(t, "Restricted"))
    /\ UNCHANGED <<blacklist, store, messages, notices, env, started, hist>>

\* Suggestions.unrestrict up to the channel selection.
Unrestrict(p, g) ==
    /\ Free(p)
    /\ Step(p, PromptChannelSelect([Idle EXCEPT !.cmd = "unrestrict", !.guild = g]))
    /\ started' = started + 1
    /\ UNCHANGED <<config, blacklist, store, messages, notices, env, hist>>

\* Suggestions.unrestrict after the selection.
UnrestrictApply(p) ==
    /\ At(p, "unrestrict")
    /\ config' = ConfigUpdate(task[p].channel, "role_id", NULL)
    /\ Step(p, Finish(task[p], "Unrestricted"))
    /\ UNCHANGED <<blacklist, store, messages, notices, env, started, hist>>

\* ----------------------------------------------------------------- /suggest

\* Suggestions.suggest up to the channel selection.
Suggest(p, g, u, attachment) ==
    /\ Free(p)
    /\ Step(p, PromptChannelSelect([Idle EXCEPT !.cmd = "suggest", !.guild = g,
                                                !.user = u, !.attachment = attachment]))
    /\ started' = started + 1
    /\ UNCHANGED <<config, blacklist, store, messages, notices, env, hist>>

\* Suggestions.suggest, the SELECT on blacklist.
SuggestBlacklist(p) ==
    /\ At(p, "suggest_blacklist")
    /\ LET t == task[p]
           blacklisted == BlacklistByGuildUserChannel(t.guild, t.user, t.channel)
       IN  Step(p,
               IF blacklisted # NoRow THEN Finish(t, "Blacklisted")
               ELSE [t EXCEPT !.pc = "suggest_config"])
    /\ UNCHANGED <<config, blacklist, store, messages, notices, env, started, hist>>

\* suggest without its check of the attachment.
SuggestConfigAnyAttachment(p) ==
    /\ At(p, "suggest_config")
    /\ LET t == task[p]
           data == ConfigByChannelGuild(t.channel, t.guild)
       IN  Step(p,
               IF data = NoRow THEN Finish(t, "NotConfigured")
               ELSE IF data.enabled = 0 THEN Finish(t, "Disabled")
               ELSE IF data.role_id \in env.roles /\ data.role_id \notin MemberRoles(t.user)
               THEN Finish(t, "RoleRequired")
               ELSE [t EXCEPT !.pc = "review", !.data = data])
    /\ UNCHANGED <<config, blacklist, store, messages, notices, env, started, hist>>

\* Suggestions.suggest, the SELECT on config and the checks on its row, up
\* to the review view being shown.
SuggestConfig(p) ==
    /\ At(p, "suggest_config")
    /\ LET t == task[p]
           data == ConfigByChannelGuild(t.channel, t.guild)
       IN  Step(p,
               IF data = NoRow THEN Finish(t, "NotConfigured")
               ELSE IF data.enabled = 0 THEN Finish(t, "Disabled")
               ELSE IF data.role_id \in env.roles /\ data.role_id \notin MemberRoles(t.user)
               THEN Finish(t, "RoleRequired")
               ELSE IF t.attachment /\ data.allow_attachments = 0
               THEN Finish(t, "AttachmentsNotAllowed")
               ELSE [t EXCEPT !.pc = "review", !.data = data])
    /\ UNCHANGED <<config, blacklist, store, messages, notices, env, started, hist>>

\* SuggestionConfirmation.post by the author: the suggestion form is sent
\* and the view stops.
SuggestReviewPost(p) ==
    /\ At(p, "review")
    /\ Step(p, [task[p] EXCEPT !.pc = "modal"])
    /\ UNCHANGED <<config, blacklist, store, messages, notices, env, started, hist>>

\* A check of the review view that lets every actor through.
AnyonePosts(t, actor) == TRUE

\* SuggestionConfirmation.interaction_check on an interaction of actor.
ReviewInteractionCheck(t, actor) == actor = Author(t)

\* An actor presses Post on the review view of task p.
ReviewPress(p, actor) ==
    /\ At(p, "review")
    /\ IF ReviewInteractionCheck(task[p], actor) THEN SuggestReviewPost(p) ELSE Refused(p)

\* The review view's timeout: suggest returns.
SuggestReviewTimeout(p) ==
    /\ At(p, "review")
    /\ Step(p, Finish(task[p], "ReviewTimedOut"))
    /\ UNCHANGED <<config, blacklist, store, messages, notices, env, started, hist>>

\* SuggestionEntryModal.on_submit up to channel.send: the anonymous check
\* against the config row read by suggest, then the id from the row count.
\* on_submit without the allow_anonymous test.
EntryModalSubmitUnchecked(p, is_anonymous) ==
    /\ At(p, "modal")
    /\ Step(p, [task[p] EXCEPT !.pc = "entry_send", !.is_anonymous = is_anonymous,
                               !.suggestion_id = Len(StoreByGuild(task[p].guild)) + 1])
    /\ UNCHANGED <<config, blacklist, store, messages, notices, env, started, hist>>

EntryModalSubmit(p, is_anonymous) ==
    /\ At(p, "modal")
    /\    LET t == task[p]
              suggestions == StoreByGuild(t.guild)
              racing == \E q \in Tasks \ {p} :
                            /\ task[q].pc \in {"entry_send", "entry_insert"}
                            /\ task[q].guild = t.guild
          IN  IF is_anonymous = 1 /\ t.data.allow_anonymous = 0
              THEN /\ Step(p, Finish(t, "AnonymousNotAllowed"))
                   /\ hist' = hist
              ELSE /\ Step(p,
                          [t EXCEPT !.pc = "entry_send", !.is_anonymous = is_anonymous,
                                    !.suggestion_id = Len(suggestions) + 1])
                   /\ hist' = IF racing
                              THEN [hist EXCEPT !.raced = @ \cup {t.guild}]
                              ELSE hist
    /\ UNCHANGED <<config, blacklist, store, messages, notices, env, started>>

\* on_submit with the INSERT in a finally clause: the row is stored whether
\* or not the message and its reactions went out.
EntrySendThenInsertAnyway(p, outcome) ==
    /\ At(p, "entry_send")
    /\    LET t == task[p]
              message == [channel_id |-> t.channel, footer |-> "Pending",
                          note |-> NULL, deleted |-> FALSE,
                          reactions |-> IF outcome = "sent" THEN 2 ELSE 0]
          IN  IF t.channel \notin env.channels
              THEN /\ messages' = messages
                   /\ Step(p, Finish(t, "Exception"))
              ELSE /\ messages' = IF outcome = "send_forbidden" THEN messages
                                  ELSE Append(messages, message)
                   /\ Step(p,
                          [t EXCEPT !.pc = "entry_insert", !.message = Len(messages) + 1])
    /\ UNCHANGED <<config, blacklist, store, notices, env, started, hist>>

\* SuggestionEntryModal.on_submit, channel.send and the two add_reaction
\* calls: Discord may refuse each of them with Forbidden.
EntrySend(p, outcome) ==
    /\ At(p, "entry_send")
    /\    LET t == task[p]
              message == [channel_id |-> t.channel, footer |-> "Pending",
                          note |-> NULL, deleted |-> FALSE,
                          reactions |-> CASE outcome = "reaction_forbidden" -> 0
                                          [] outcome = "downvote_forbidden" -> 1
                                          [] OTHER -> 2]
          IN  IF t.channel \notin env.channels
              THEN /\ messages' = messages
                   /\ Step(p, Finish(t, "Exception"))
              ELSE IF outcome = "send_forbidden"
              THEN /\ messages' = messages
                   /\ Step(p, Finish(t, "FailedToSend"))
              ELSE IF outcome \in {"reaction_forbidden", "downvote_forbidden"}
              THEN /\ messages' = Append(messages, message)
                   /\ Step(p, Finish(t, "FailedToSend"))
              ELSE /\ messages' = Append(messages, message)
                   /\ Step(p,
                          [t EXCEPT !.pc = "entry_insert", !.message = Len(messages) + 1])
    /\ UNCHANGED <<config, blacklist, store, notices, env, started, hist>>

\* SuggestionEntryModal.on_submit, the INSERT and the acknowledgement.
EntryInsert(p) ==
    /\ At(p, "entry_insert")
    /\ LET t == task[p]
       IN  /\ store' = Append(store,
                  [id |-> t.suggestion_id, guild_id |-> t.guild,
                   channel_id |-> t.channel, author_id |-> t.user,
                   message_id |-> t.message,
                   attachment_url |-> IF t.attachment THEN "url" ELSE NULL,
                   anonymous |-> t.is_anonymous, status |-> StatusText(PENDING),
                   edited_at |-> NULL, action_updated_at |-> NULL,
                   action_note |-> NULL])
           /\ Step(p, Finish(t, "Posted"))
    /\ UNCHANGED <<config, blacklist, messages, notices, env, started, hist>>

\* -------------------------------------- /suggestions accept, decline, consider

\* update_suggestion_status without its check of the stored status.
ModerateUnchecked(p, g, status, suggestion_id, note) ==
    /\ Free(p)
    /\    LET t == [Idle EXCEPT !.cmd = "moderate", !.guild = g, !.status = status,
                                !.suggestion_id = suggestion_id, !.note = note]
              suggestion == StoreByGuildId(g, suggestion_id)
          IN  Step(p,
                  IF suggestion = NoRow THEN Finish(t, "InvalidId")
                  ELSE IF suggestion.channel_id \notin env.channels
                  THEN Finish(t, "Exception")
                  ELSE [t EXCEPT !.pc = "fetch_message", !.suggestion = suggestion,
                                 !.channel = suggestion.channel_id])
    /\ started' = started + 1
    /\ UNCHANGED <<config, blacklist, store, messages, notices, env, hist>>

\* update_suggestion_status up to channel.fetch_message: the SELECT, the two
\* early returns, and guild.get_channel (None raises on .fetch_message).
Moderate(p, g, status, suggestion_id, note) ==
    /\ Free(p)
    /\    LET t == [Idle EXCEPT !.cmd = "moderate", !.guild = g, !.status = status,
                                !.suggestion_id = suggestion_id, !.note = note]
              suggestion == StoreByGuildId(g, suggestion_id)
          IN  Step(p,
                  IF suggestion = NoRow THEN Finish(t, "InvalidId")
                  ELSE IF ParseInt(suggestion.status) # PENDING
                  THEN Finish(t, "AlreadyActed")
                  ELSE IF suggestion.channel_id \notin env.channels
                  THEN Finish(t, "Exception")
                  ELSE [t EXCEPT !.pc = "fetch_message", !.suggestion = suggestion,
                                 !.channel = suggestion.channel_id])
    /\ started' = started + 1
    /\ UNCHANGED <<config, blacklist, store, messages, notices, env, hist>>

\* update_suggestion_status with the UPDATE run ahead of fetch_message.
ModerateUpdateThenFetch(p) ==
    /\ At(p, "fetch_message")
    /\ LET t == task[p]
       IN  /\ store' = StoreUpdate(t.status, "now", t.note, t.guild, t.suggestion_id)
           /\ Step(p,
                  IF messages[t.suggestion.message_id].deleted
                  THEN Finish(t, "MessageNotFound")
                  ELSE [t EXCEPT !.pc = "update_store", !.message = t.suggestion.message_id])
    /\ UNCHANGED <<config, blacklist, messages, notices, env, started, hist>>

\* update_suggestion_status, channel.fetch_message.
ModerateFetchMessage(p) ==
    /\ At(p, "fetch_message")
    /\ LET t == task[p]
       IN  Step(p,
               IF messages[t.suggestion.message_id].deleted
               THEN Finish(t, "MessageNotFound")
               ELSE [t EXCEPT !.pc = "update_store", !.message = t.suggestion.message_id])
    /\ UNCHANGED <<config, blacklist, store, messages, notices, env, started, hist>>

\* update_suggestion_status, the UPDATE of store.
ModerateUpdate(p) ==
    /\ At(p, "update_store")
    /\ LET t == task[p]
       IN  store' = StoreUpdate(t.status, "now", t.note, t.guild, t.suggestion_id)
    /\ Step(p, [task[p] EXCEPT !.pc = "select_config"])
    /\ UNCHANGED <<config, blacklist, messages, notices, env, started, hist>>

\* update_suggestion_status, the SELECT on config and its early return.
ModerateConfig(p) ==
    /\ At(p, "select_config")
    /\ LET t == task[p]
           row == ConfigByChannel(t.suggestion.channel_id)
       IN  Step(p,
               IF row = NoRow THEN Finish(t, "SuggestionChannelNotFound")
               ELSE [t EXCEPT !.pc = "edit_message",
                              !.notify = row.action_notification_enabled])
    /\ UNCHANGED <<config, blacklist, store, messages, notices, env, started, hist>>

\* The acknowledgement update_suggestion_status sends last: "updated
\* successfully", followed when the channel asks for a notice by what became
\* of it (the author left the guild, refused the message, or was notified).
Acknowledgement(notify, delivery) ==
    IF notify = 0 THEN "Updated"
    ELSE IF delivery = "left" THEN "UpdatedAuthorLeft"
    ELSE IF delivery = "forbidden" THEN "UpdatedNotNotified"
    ELSE "UpdatedNotified"

\* update_suggestion_status with member.send outside a try: a refused
\* private message ends the call with the exception.
ModerateEditNoticeRaises(p, delivery) ==
    /\ At(p, "edit_message")
    /\    LET t == task[p]
          IN  IF messages[t.message].deleted
              THEN /\ messages' = messages
                   /\ notices' = notices
                   /\ Step(p, Finish(t, "Exception"))
              ELSE /\ messages' = [messages EXCEPT ![t.message] =
                          [@ EXCEPT !.footer = StatusFriendly(t.status),
                                    !.note = IF t.note # NULL THEN t.note ELSE @]]
                   /\ notices' = IF t.notify = 1 /\ delivery = "notified"
                                 THEN Append(notices,
                                        [user |-> t.suggestion.author_id,
                                         guild |-> t.guild, id |-> t.suggestion.id,
                                         status |-> StatusFriendly(t.status)])
                                 ELSE notices
                   /\ Step(p, Finish(t, IF t.notify = 1 /\ delivery = "forbidden"
                                        THEN "Exception"
                                        ELSE Acknowledgement(t.notify, delivery)))
    /\ UNCHANGED <<config, blacklist, store, env, started, hist>>

\* update_suggestion_status, message.edit, then the private notice to the
\* author when the channel asks for one (the author may have left the guild,
\* or refuse private messages), then the acknowledgement.
ModerateEdit(p, delivery) ==
    /\ At(p, "edit_message")
    /\    LET t == task[p]
          IN  IF messages[t.message].deleted
              THEN /\ messages' = messages
                   /\ notices' = notices
                   /\ Step(p, Finish(t, "Exception"))
              ELSE /\ messages' = [messages EXCEPT ![t.message] =
                          [@ EXCEPT !.footer = StatusFriendly(t.status),
                                    !.note = IF t.note # NULL THEN t.note ELSE @]]
                   /\ notices' = IF t.notify = 1 /\ delivery = "notified"
                                 THEN Append(notices,
                                        [user |-> t.suggestion.author_id,
                                         guild |-> t.guild, id |-> t.suggestion.id,
                                         status |-> StatusFriendly(t.status)])
                                 ELSE notices
                   /\ Step(p, Finish(t, Acknowledgement(t.notify, delivery)))
    /\ UNCHANGED <<config, blacklist, store, env, started, hist>>

\* A suggestion message is deleted from its channel by a moderator.
MessageDeleted(m) ==
    /\ ~LoopBlocked
    /\ m \in 1..Len(messages)
    /\ ~messages[m].deleted
    /\ messages' = [messages EXCEPT ![m].deleted = TRUE]
    /\ UNCHANGED <<config, blacklist, store, notices, env, task, response, started, hist>>

\* A channel is deleted from its guild: guild.get_channel returns None for
\* it from now on, while its config row stays in the table.
ChannelDeleted(c) ==
    /\ ~LoopBlocked
    /\ c \in env.channels
    /\ env' = [env EXCEPT !.channels = @ \ {c}]
    /\ UNCHANGED <<config, blacklist, store, messages, notices, task, response, started, hist>>

\* A role is deleted from its guild: guild.get_role returns None for it from
\* now on, while config rows that name it keep their role_id.
RoleDeleted(r) ==
    /\ ~LoopBlocked
    /\ r \in env.roles
    /\ env' = [env EXCEPT !.roles = @ \ {r}]
    /\ UNCHANGED <<config, blacklist, store, messages, notices, task, response, started, hist>>

\* ------------------------------------------------------ /suggestions blacklist

\* Suggestions.add up to the channel selection; the command is issued in
\* any channel of the guild (interaction.channel).
BlacklistAdd(p, ichan, user, reason) ==
    /\ Free(p)
    /\ Step(p, PromptChannelSelect([Idle EXCEPT !.cmd = "blacklist_add",
                                                !.guild = GuildOf(ichan),
                                                !.ichan = ichan, !.target = user,
                                                !.reason = reason]))
    /\ started' = started + 1
    /\ UNCHANGED <<config, blacklist, store, messages, notices, env, hist>>

\* The add call for (channel, user) returned: it is the latest for the pair.
Added(t) ==
    [hist EXCEPT !.listed = @ \cup {<<t.channel, t.target>>},
                 !.reason = IF t.reason # NULL
                            THEN [@ EXCEPT ![<<t.channel, t.target>>] = t.reason]
                            ELSE @]

\* Suggestions.add, the SELECT of an existing entry of the selected channel.
BlacklistAddCheck(p) ==
    /\ At(p, "blacklist_check")
    /\ LET t == task[p]
           existing == BlacklistByChannelUser(t.channel, t.target)
       IN  IF existing # NoRow /\ t.reason = NULL
           THEN /\ Step(p, Finish(t, "AlreadyBlacklisted"))
                /\ hist' = Added(t)
           ELSE /\ Step(p, [t EXCEPT !.pc =
                       IF existing # NoRow THEN "blacklist_update" ELSE "blacklist_insert"])
                /\ hist' = hist
    /\ UNCHANGED <<config, blacklist, store, messages, notices, env, started>>

\* Suggestions.add, the UPDATE of the reason.
BlacklistAddUpdate(p) ==
    /\ At(p, "blacklist_update")
    /\ LET t == task[p]
       IN  /\ blacklist' = BlacklistUpdate(t.reason, t.target, t.channel)
           /\ Step(p, Finish(t, "ReasonUpdated"))
           /\ hist' = Added(t)
    /\ UNCHANGED <<config, store, messages, notices, env, started>>

\* Suggestions.add, the INSERT: the row takes interaction.channel.id, the
\* channel the command was issued in.
BlacklistAddInsert(p) ==
    /\ At(p, "blacklist_insert")
    /\ LET t == task[p]
       IN  /\ blacklist' = Append(blacklist,
                  [guild_id |-> t.guild, channel_id |-> t.ichan,
                   user_id |-> t.target, reason |-> t.reason])
           /\ Step(p, Finish(t, "Blacklisted"))
           /\ hist' = Added(t)
    /\ UNCHANGED <<config, store, messages, notices, env, started>>

\* Suggestions.remove up to the channel selection.
BlacklistRemove(p, g, user) ==
    /\ Free(p)
    /\ Step(p, PromptChannelSelect([Idle EXCEPT !.cmd = "blacklist_remove", !.guild = g,
                                                !.target = user]))
    /\ started' = started + 1
    /\ UNCHANGED <<config, blacklist, store, messages, notices, env, hist>>

\* Suggestions.remove, the DELETE.
BlacklistRemoveDelete(p) ==
    /\ At(p, "blacklist_delete")
    /\ LET t == task[p]
       IN  /\ blacklist' = BlacklistDelete(t.channel, t.target)
           /\ Step(p, Finish(t, "Removed"))
           /\ hist' = [hist EXCEPT !.listed = @ \ {<<t.channel, t.target>>},
                                   !.reason[<<t.channel, t.target>>] = NULL]
    /\ UNCHANGED <<config, store, messages, notices, env, started>>

\* ---------------------------------------------------------- specification

Init ==
    /\ config = <<>>
    /\ blacklist = <<>>
    /\ store = <<>>
    /\ messages = <<>>
    /\ notices = <<>>
    /\ env = [channels |-> Channels, roles |-> Roles]
    /\ task = [p \in Tasks |-> Idle]
    /\ response = NoResponse
    /\ started = 0
    /\ hist = [raced |-> {}, listed |-> {},
               reason |-> [cu \in Channels \X Users |-> NULL]]

\* The config table after setup was run for every channel and the private
\* notice was switched on for c1 in the settings panel.
Configured ==
    <<[NewConfigRow("g1", "c1") EXCEPT !.action_notification_enabled = 1],
      NewConfigRow("g1", "c2"), NewConfigRow("g2", "c3")>>

InitConfigured ==
    /\ config = Configured
    /\ blacklist = <<>>
    /\ store = <<>>
    /\ messages = <<>>
    /\ notices = <<>>
    /\ env = [channels |-> Channels, roles |-> Roles]
    /\ task = [p \in Tasks |-> Idle]
    /\ response = NoResponse
    /\ started = 0
    /\ hist = [raced |-> {}, listed |-> {},
               reason |-> [cu \in Channels \X Users |-> NULL]]

\* The channels of the three suggestions posted so far, in posting order.
Posted == <<"c1", "c2">>

\* The database after c1 and c2 each received one suggestion: #1 and #2 of
\* g1, both Pending, their messages in place; g2 has none yet.
InitPosted ==
    /\ config = Configured
    /\ blacklist = <<>>
    /\ store = [i \in 1..Len(Posted) |->
                  [id |-> i, guild_id |-> GuildOf(Posted[i]),
                   channel_id |-> Posted[i], author_id |-> "u1", message_id |-> i,
                   attachment_url |-> NULL, anonymous |-> 0,
                   status |-> StatusText(PENDING), edited_at |-> NULL,
                   action_updated_at |-> NULL, action_note |-> NULL]]
    /\ messages = [i \in 1..Len(Posted) |->
                     [channel_id |-> Posted[i], footer |-> "Pending", note |-> NULL,
                      deleted |-> FALSE, reactions |-> 2]]
    /\ notices = <<>>
    /\ env = [channels |-> Channels, roles |-> Roles]
    /\ task = [p \in Tasks |-> Idle]
    /\ response = NoResponse
    /\ started = 0
    /\ hist = [raced |-> {}, listed |-> {},
               reason |-> [cu \in Channels \X Users |-> NULL]]

\* The channel selection view shared by the commands.
Select(p) ==
    \/ \E c \in Channels : SelectChoose(p, c)
    \/ SelectCancel(p)
    \/ SelectTimeout(p)

\* /suggestions setup and remove-setup.
NextConfig ==
    \E p \in Tasks :
        \/ \E c \in Channels : Setup(p, c)
        \/ SetupInsert(p)
        \/ \E g \in Guilds : RemoveSetup(p, g)
        \/ \E confirmed \in {"True", "False", NULL} : RemoveSetupConfirmed(p, confirmed)
        \/ Select(p)

SpecConfig == Init /\ [][NextConfig]_vars

\* /suggestions setup, settings, restrict and unrestrict.
NextSettings ==
    \E p \in Tasks :
        \/ \E c \in Channels : Setup(p, c)
        \/ SetupInsert(p)
        \/ \E g \in Guilds : Settings(p, g)
        \/ SettingsSetup(p)
        \/ \E value \in SettingNames : SettingsSelect(p, value)
        \/ \E value \in {0, 1} : SettingsModalSubmit(p, value)
        \/ SettingsUpdateWake(p)
        \/ SettingsClose(p)
        \/ SettingsTimeout(p)
        \/ \E g \in Guilds : \E role \in Roles \cup {NULL} : Restrict(p, g, role)
        \/ RestrictApply(p)
        \/ \E g \in Guilds : Unrestrict(p, g)
        \/ UnrestrictApply(p)
        \/ Select(p)

SpecSettings == Init /\ [][NextSettings]_vars

\* /suggestions accept, decline and consider on the posted suggestions, in
\* the guilds that have some.
NextModerate ==
    \E p \in Tasks :
        \/ \E i \in 1..Len(store) : \E status \in {ACCEPTED, DECLINED, CONSIDERED} :
           \E note \in Notes \cup {NULL} :
              Moderate(p, store[i].guild_id, status, store[i].id, note)
        \/ ModerateFetchMessage(p)
        \/ ModerateUpdate(p)
        \/ ModerateConfig(p)
        \/ \E delivery \in {"notified", "left", "forbidden"} : ModerateEdit(p, delivery)

SpecModerate == InitPosted /\ [][NextModerate]_vars

\* /suggest from the command to the stored row.
Post(p, users, attachments, anonymity, outcomes) ==
    \/ \E g \in Guilds : \E u \in users : \E attachment \in attachments :
          Suggest(p, g, u, attachment)
    \/ SuggestBlacklist(p)
    \/ SuggestConfig(p)
    \/ SuggestReviewPost(p)
    \/ SuggestReviewTimeout(p)
    \/ \E is_anonymous \in anonymity : EntryModalSubmit(p, is_anonymous)
    \/ \E outcome \in outcomes : EntrySend(p, outcome)
    \/ EntryInsert(p)

\* /suggest by one member together with the moderation commands.
NextPost ==
    \E p \in Tasks :
        \/ Post(p, {"u1"}, {FALSE}, {0}, {"sent", "send_forbidden", "reaction_forbidden"})
        \/ \E g \in Guilds : \E status \in {ACCEPTED, DECLINED, CONSIDERED} :
           \E suggestion_id \in 1..(Len(store) + 1) :
              Moderate(p, g, status, suggestion_id, NULL)
        \/ ModerateFetchMessage(p)
        \/ ModerateUpdate(p)
        \/ ModerateConfig(p)
        \/ \E delivery \in {"notified", "left", "forbidden"} : ModerateEdit(p, delivery)
        \/ Select(p)

SpecPost == InitConfigured /\ [][NextPost]_vars

\* /suggestions blacklist add and remove together with /suggest.
NextBlacklist ==
    \E p \in Tasks :
        \/ \E ichan \in Channels : \E user \in {"u1"} : \E reason \in Reasons \cup {NULL} :
              BlacklistAdd(p, ichan, user, reason)
        \/ BlacklistAddCheck(p)
        \/ BlacklistAddUpdate(p)
        \/ BlacklistAddInsert(p)
        \/ \E g \in Guilds : \E user \in {"u1"} : BlacklistRemove(p, g, user)
        \/ BlacklistRemoveDelete(p)
        \/ Post(p, {"u1"}, {FALSE}, {0}, {"sent"})
        \/ Select(p)

SpecBlacklist == InitConfigured /\ [][NextBlacklist]_vars

\* /suggestions remove-setup with its two views, pressed by any actor,
\* while channels may be deleted from their guilds.
NextDialogs ==
    \/ \E p \in Tasks :
        \/ \E g \in Guilds : RemoveSetup(p, g)
        \/ \E actor \in Actors : \E c \in Channels : PickerChoice(p, actor, c)
        \/ \E actor \in Actors : PickerCancel(p, actor)
        \/ SelectTimeout(p)
        \/ \E actor \in Actors : \E confirmed \in {"True", "False"} :
              ConfirmationPress(p, actor, confirmed)
        \/ ConfirmationTimeout(p)
    \/ \E c \in Channels : ChannelDeleted(c)

SpecDialogs == InitConfigured /\ [][NextDialogs]_vars

\* The database after setup was run for every channel and the settings
\* panel and restrict were used on c3 in some way.
InitAdmission ==
    /\ \E enabled \in {0, 1} : \E allow_attachments \in {0, 1} :
       \E role_id \in RolesOf("g2") \cup {NULL} :
          config = <<NewConfigRow("g1", "c1"), NewConfigRow("g1", "c2"),
                     [NewConfigRow("g2", "c3") EXCEPT
                         !.enabled = enabled, !.allow_attachments = allow_attachments,
                         !.role_id = role_id]>>
    /\ blacklist = <<>>
    /\ store = <<>>
    /\ messages = <<>>
    /\ notices = <<>>
    /\ env = [channels |-> Channels, roles |-> Roles]
    /\ task = [p \in Tasks |-> Idle]
    /\ response = NoResponse
    /\ started = 0
    /\ hist = [raced |-> {}, listed |-> {},
               reason |-> [cu \in Channels \X Users |-> NULL]]

\* /suggest in g2 by any member, with or without an attachment, its review
\* view pressed by any actor, the form submitted either way, and Discord
\* accepting or refusing the message and its reactions.
NextAdmission ==
    \E p \in Tasks :
        \/ \E u \in Users : \E attachment \in BOOLEAN : Suggest(p, "g2", u, attachment)
        \/ SuggestBlacklist(p)
        \/ SuggestConfig(p)
        \/ \E actor \in Actors : ReviewPress(p, actor)
        \/ SuggestReviewTimeout(p)
        \/ \E is_anonymous \in {0, 1} : EntryModalSubmit(p, is_anonymous)
        \/ \E outcome \in {"sent", "send_forbidden", "reaction_forbidden",
                            "downvote_forbidden"} : EntrySend(p, outcome)
        \/ EntryInsert(p)

SpecAdmission == InitAdmission /\ [][NextAdmission]_vars

\* Moderations with a staff note on the posted suggestions, while their
\* messages may be deleted and remove-setup may be run in their guild.
NextAbort ==
    \/ \E p \in Tasks :
        \/ \E i \in 1..Len(store) : \E status \in {ACCEPTED, DECLINED} :
              Moderate(p, store[i].guild_id, status, store[i].id, "great")
        \/ ModerateFetchMessage(p)
        \/ ModerateUpdate(p)
        \/ ModerateConfig(p)
        \/ \E delivery \in {"notified", "left", "forbidden"} : ModerateEdit(p, delivery)
        \/ RemoveSetup(p, "g1")
        \/ \E confirmed \in {"True", "False", NULL} : RemoveSetupConfirmed(p, confirmed)
        \/ Select(p)
    \/ \E m \in 1..Len(messages) : MessageDeleted(m)

SpecAbort == InitPosted /\ [][NextAbort]_vars

\* The database after setup was run for every channel, the settings panel
\* and restrict were used on c3 in some way, and u2 was or was not
\* blacklisted in c3.
InitOrder ==
    /\ \E enabled \in {0, 1} : \E allow_attachments \in {0, 1} :
       \E role_id \in RolesOf("g2") \cup {NULL} :
          config = <<NewConfigRow("g1", "c1"), NewConfigRow("g1", "c2"),
                     [NewConfigRow("g2", "c3") EXCEPT
                         !.enabled = enabled, !.allow_attachments = allow_attachments,
                         !.role_id = role_id]>>
    /\ \E listed \in BOOLEAN :
          /\ blacklist = IF listed
                         THEN <<[guild_id |-> "g2", channel_id |-> "c3",
                                 user_id |-> "u2", reason |-> NULL]>>
                         ELSE <<>>
          /\ hist = [raced |-> {},
                     listed |-> IF listed THEN {<<"c3", "u2">>} ELSE {},
                     reason |-> [cu \in Channels \X Users |-> NULL]]
    /\ store = <<>>
    /\ messages = <<>>
    /\ notices = <<>>
    /\ env = [channels |-> Channels, roles |-> Roles]
    /\ task = [p \in Tasks |-> Idle]
    /\ response = NoResponse
    /\ started = 0

\* /suggest in g2 by any member, with or without an attachment, while the
\* restriction role may be deleted and remove-setup may be run in g2.
NextOrder ==
    \/ \E p \in Tasks :
        \/ \E u \in Users : \E attachment \in BOOLEAN : Suggest(p, "g2", u, attachment)
        \/ SuggestBlacklist(p)
        \/ SuggestConfig(p)
        \/ SuggestReviewPost(p)
        \/ SuggestReviewTimeout(p)
        \/ EntryModalSubmit(p, 0)
        \/ EntrySend(p, "sent")
        \/ EntryInsert(p)
        \/ RemoveSetup(p, "g2")
        \/ \E confirmed \in {"True", "False"} : RemoveSetupConfirmed(p, confirmed)
    \/ \E r \in RolesOf("g2") : RoleDeleted(r)

SpecOrder == InitOrder /\ [][NextOrder]_vars

\* The database after c3 received one suggestion: #1 of g2, Pending, its
\* message in place.
InitFrame ==
    /\ config = Configured
    /\ blacklist = <<>>
    /\ store = <<[id |-> 1, guild_id |-> "g2", channel_id |-> "c3",
                  author_id |-> "u1", message_id |-> 1,
                  attachment_url |-> NULL, anonymous |-> 0,
                  status |-> StatusText(PENDING), edited_at |-> NULL,
                  action_updated_at |-> NULL, action_note |-> NULL]>>
    /\ messages = <<[channel_id |-> "c3", footer |-> "Pending", note |-> NULL,
                     deleted |-> FALSE, reactions |-> 2]>>
    /\ notices = <<>>
    /\ env = [channels |-> Channels, roles |-> Roles]
    /\ task = [p \in Tasks |-> Idle]
    /\ response = NoResponse
    /\ started = 0
    /\ hist = [raced |-> {}, listed |-> {},
               reason |-> [cu \in Channels \X Users |-> NULL]]

\* Every command of the cog run in g2, which has a suggestion.
NextFrame ==
    \E p \in Tasks :
        \/ Setup(p, "c3")
        \/ SetupInsert(p)
        \/ RemoveSetup(p, "g2")
        \/ \E confirmed \in {"True", "False", NULL} : RemoveSetupConfirmed(p, confirmed)
        \/ Settings(p, "g2")
        \/ SettingsSetup(p)
        \/ \E value \in {"enabled", "action_notification_enabled"} : SettingsSelect(p, value)
        \/ \E value \in {0, 1} : SettingsModalSubmit(p, value)
        \/ SettingsUpdateWake(p)
        \/ SettingsClose(p)
        \/ SettingsTimeout(p)
        \/ \E role \in {"r2", NULL} : Restrict(p, "g2", role)
        \/ RestrictApply(p)
        \/ Unrestrict(p, "g2")
        \/ UnrestrictApply(p)
        \/ BlacklistAdd(p, "c3", "u1", "spam")
        \/ BlacklistAddCheck(p)
        \/ BlacklistAddUpdate(p)
        \/ BlacklistAddInsert(p)
        \/ BlacklistRemove(p, "g2", "u1")
        \/ BlacklistRemoveDelete(p)
        \/ Suggest(p, "g2", "u1", FALSE)
        \/ SuggestBlacklist(p)
        \/ SuggestConfig(p)
        \/ SuggestReviewPost(p)
        \/ SuggestReviewTimeout(p)
        \/ EntryModalSubmit(p, 0)
        \/ EntrySend(p, "sent")
        \/ EntryInsert(p)
        \/ \E i \in 1..Len(store) : \E status \in {ACCEPTED, DECLINED} :
              \E note \in {"great", NULL} :
                 Moderate(p, store[i].guild_id, status, store[i].id, note)
        \/ ModerateFetchMessage(p)
        \/ ModerateUpdate(p)
        \/ ModerateConfig(p)
        \/ \E delivery \in {"notified", "forbidden"} : ModerateEdit(p, delivery)

SpecFrame == InitFrame /\ [][NextFrame]_vars

\* The database after setup was run for the two channels of g1 and u1 was
\* blacklisted in c1; g2 has no suggestion channel.
InitSelection ==
    /\ config = <<NewConfigRow("g1", "c1"), NewConfigRow("g1", "c2")>>
    /\ blacklist = <<[guild_id |-> "g1", channel_id |-> "c1",
                      user_id |-> "u1", reason |-> NULL]>>
    /\ store = <<>>
    /\ messages = <<>>
    /\ notices = <<>>
    /\ env = [channels |-> Channels, roles |-> Roles]
    /\ task = [p \in Tasks |-> Idle]
    /\ response = NoResponse
    /\ started = 0
    /\ hist = [raced |-> {}, listed |-> {<<"c1", "u1">>},
               reason |-> [cu \in Channels \X Users |-> NULL]]

\* The seven commands that start with the channel selection, run in g1
\* (two candidates: the picker) and in g2 (no candidate).
NextSelection ==
    \E p \in Tasks :
        \/ \E g \in Guilds : RemoveSetup(p, g)
        \/ RemoveSetupConfirmed(p, "True")
        \/ \E g \in Guilds : Settings(p, g)
        \/ SettingsSetup(p)
        \/ SettingsClose(p)
        \/ \E g \in Guilds : \E role \in Roles : Restrict(p, g, role)
        \/ RestrictApply(p)
        \/ \E g \in Guilds : Unrestrict(p, g)
        \/ UnrestrictApply(p)
        \/ \E ichan \in {"c1", "c3"} : \E user \in Users :
              BlacklistAdd(p, ichan, user, NULL)
        \/ BlacklistAddCheck(p)
        \/ BlacklistAddInsert(p)
        \/ \E g \in Guilds : BlacklistRemove(p, g, "u1")
        \/ BlacklistRemoveDelete(p)
        \/ \E g \in Guilds : Suggest(p, g, "u2", FALSE)
        \/ SuggestBlacklist(p)
        \/ SuggestConfig(p)
        \/ SuggestReviewTimeout(p)
        \/ Select(p)

SpecSelection == InitSelection /\ [][NextSelection]_vars

\* /suggestions settings on the channel of g2, its toggles submitted and its
\* panel closed or left to expire, while remove-setup may be run in g2.
NextPanel ==
    \E p \in Tasks :
        \/ Settings(p, "g2")
        \/ SettingsSetup(p)
        \/ \E value \in SettingNames : SettingsSelect(p, value)
        \/ \E value \in {0, 1} : SettingsModalSubmit(p, value)
        \/ SettingsUpdateWake(p)
        \/ SettingsClose(p)
        \/ SettingsTimeout(p)
        \/ RemoveSetup(p, "g2")
        \/ \E confirmed \in {"True", "False", NULL} : RemoveSetupConfirmed(p, confirmed)

\* The event loop resumes a handler whose await completed (the SELECT of
\* SuggestionSettings.setup, the asyncio.sleep(2) of update), and the timer
\* of a panel that is not closed runs out (View timeout, 180 s).
FairPanel ==
    \A p \in Tasks :
        /\ WF_vars(SettingsSetup(p))
        /\ WF_vars(SettingsUpdateWake(p))
        /\ WF_vars(SettingsTimeout(p))

SpecPanel == InitConfigured /\ [][NextPanel]_vars /\ FairPanel

\* ------------------------------------------------------------- properties

ConfigRows(g, c) == {i \in 1..Len(config) : config[i].guild_id = g /\ config[i].channel_id = c}

\* C1: in every reachable state the config table holds at most one row per
\* (guild_id, channel_id), whatever setups and remove-setups interleaved.
C1_OneConfigRowPerChannel ==
    \A g \in Guilds : \A c \in Channels : Cardinality(ConfigRows(g, c)) <= 1

\* Two setups of one channel raced past the check and the second INSERT was
\* refused by the primary key.
C1_RacingInsertRefused ==
    /\ response.result = "IntegrityError"
    /\ ConfigRows(response.guild, response.channel) # {}

\* C2: a setup whose check finds a row for its channel answers "already
\* configured" and leaves the whole config table, that row included, as it was.
C2_SecondSetupRejected ==
    [][\A p \in Tasks : \A c \in Channels :
          (Setup(p, c) /\ ConfigRows(GuildOf(c), c) # {}) =>
                  /\ task'[p] = Idle
                  /\ response'.cmd = "setup"
                  /\ response'.result = "AlreadyConfigured"
                  /\ config' = config]_vars

\* A setup was rejected for a channel whose row no longer holds the defaults.
C2_RejectedOnChangedRow ==
    /\ response.cmd = "setup"
    /\ response.result = "AlreadyConfigured"
    /\ \E i \in ConfigRows(response.guild, response.channel) :
           config[i] # NewConfigRow(response.guild, response.channel)

\* --------------------------------------------------------- moderation claims

StoreRows(g, k) == {i \in 1..Len(store) : store[i].guild_id = g /\ store[i].id = k}

Statuses == {ACCEPTED, DECLINED, CONSIDERED}

\* The arguments of the command slot p started in this step, read from what
\* the step left behind: the slot, or the answer when it returned at once.
StartedBy(p) == IF task'[p] = Idle THEN response' ELSE task'[p]

\* C3: a stored status other than Pending is the same in the next state,
\* whatever step is taken and whatever moderations are in flight.
C3_ResolvedStatusFrozen ==
    [][\A i \in 1..Len(store) :
          ParseInt(store[i].status) # PENDING => store'[i].status = store[i].status]_vars

\* C4: a moderation started on a suggestion whose stored status is not
\* Pending answers "already acted upon" for every requested status, and the
\* store (status, note, timestamp), the messages and the notices stay as
\* they were.
C4_ResolvedModerateRejected ==
    [][\A p \in Tasks : \A note \in Notes \cup {NULL} :
          (/\ started' = started + 1
           /\ \E i \in StoreRows(StartedBy(p).guild, StartedBy(p).suggestion_id) :
                  ParseInt(store[i].status) # PENDING
           /\ Moderate(p, StartedBy(p).guild, StartedBy(p).status,
                       StartedBy(p).suggestion_id, note))
          => /\ task'[p] = Idle
             /\ response'.cmd = "moderate"
             /\ response'.result = "AlreadyActed"
             /\ store' = store
             /\ messages' = messages
             /\ notices' = notices]_vars

\* A moderation asking for the status the suggestion already has was
\* rejected.
C4_RejectedSameStatus ==
    /\ response.cmd = "moderate"
    /\ response.result = "AlreadyActed"
    /\ \E i \in StoreRows(response.guild, response.suggestion_id) :
           /\ ParseInt(store[i].status) = response.status
           /\ messages[store[i].message_id].footer = StatusFriendly(response.status)

\* C5: a moderation for an id with no suggestion in its guild answers
\* "invalid suggestion ID" and writes nothing: the store, the messages and
\* the notices stay as they were.
C5_UnknownIdRejected ==
    [][\A p \in Tasks : \A note \in Notes \cup {NULL} :
          (/\ started' = started + 1
           /\ StoreRows(StartedBy(p).guild, StartedBy(p).suggestion_id) = {}
           /\ Moderate(p, StartedBy(p).guild, StartedBy(p).status,
                       StartedBy(p).suggestion_id, note))
          => /\ task'[p] = Idle
             /\ response'.cmd = "moderate"
             /\ response'.result = "InvalidId"
             /\ store' = store
             /\ messages' = messages
             /\ notices' = notices]_vars

\* A moderation was rejected for an id that only another guild has.
C5_RejectedIdOfOtherGuild ==
    /\ response.cmd = "moderate"
    /\ response.result = "InvalidId"
    /\ StoreRows(response.guild, response.suggestion_id) = {}
    /\ \E g \in Guilds : StoreRows(g, response.suggestion_id) # {}

\* ------------------------------------------------------------ posting claims

\* C6: no two rows of the store share a guild and an id.
C6_UniqueSequenceIds ==
    \A g \in Guilds : \A k \in 1..(Len(store) + 1) : Cardinality(StoreRows(g, k)) <= 1

\* The ids of the rows of guild g, in the order the rows were inserted.
RECURSIVE IdsOf(_, _)
IdsOf(g, n) ==
    IF n = 0 THEN <<>>
    ELSE IF store[n].guild_id = g THEN Append(IdsOf(g, n - 1), store[n].id)
    ELSE IdsOf(g, n - 1)

\* C7: in a guild whose posts never overlapped between the count and the
\* INSERT, the n-th stored suggestion has id n, whatever its channel and
\* whatever the other guilds posted; and the UPDATE of a moderation sets
\* the status of the rows of its guild and id to the requested status,
\* while every other row keeps its status in every step.
C7_SequentialIdsAndSingleUpdate ==
    /\ [](\A g \in Guilds \ hist.raced :
             \A n \in 1..Len(IdsOf(g, Len(store))) : IdsOf(g, Len(store))[n] = n)
    /\ [][\A i \in 1..Len(store) :
             IF \E p \in Tasks : /\ ModerateUpdate(p)
                                 /\ i \in StoreRows(task[p].guild, task[p].suggestion_id)
             THEN \E p \in Tasks : /\ ModerateUpdate(p)
                                   /\ store'[i].status = StatusText(task[p].status)
             ELSE store'[i].status = store[i].status]_vars

\* Two posts of g1 into different channels got ids 1 and 2 one after the
\* other, and a moderation resolved one of them while the other is Pending.
C7_SecondPostModerated ==
    /\ "g1" \notin hist.raced
    /\ \E i \in StoreRows("g1", 1) : \E j \in StoreRows("g1", 2) :
           /\ i < j
           /\ store[i].channel_id # store[j].channel_id
           /\ ParseInt(store[j].status) \in Statuses
           /\ ParseInt(store[i].status) = PENDING
    /\ response.cmd = "moderate"
    /\ response.result = "Updated"

\* ---------------------------------------------------------- blacklist claims

BlacklistRows(c, u) ==
    {i \in 1..Len(blacklist) : blacklist[i].channel_id = c /\ blacklist[i].user_id = u}

\* No blacklist command is between its first read and its answer.
BlacklistQuiet ==
    \A p \in Tasks : task[p].cmd \notin {"blacklist_add", "blacklist_remove"}

\* C8: the blacklist holds at most one row per channel and user.
C8_OneEntryPerChannelUser ==
    \A c \in Channels : \A u \in Users : Cardinality(BlacklistRows(c, u)) <= 1

\* C9: when no blacklist command is in flight, a pair that was added and
\* not removed since has a row, and the reason of its rows is the reason of
\* the latest add that gave one (NULL when none did).
C9_LatestReasonStored ==
    BlacklistQuiet =>
        \A cu \in hist.listed :
            /\ BlacklistRows(cu[1], cu[2]) # {}
            /\ \A i \in BlacklistRows(cu[1], cu[2]) : blacklist[i].reason = hist.reason[cu]

\* C10: while a pair is added and not removed, /suggest by that member into
\* that channel answers with the blacklist message at its blacklist check,
\* and the store is left alone.
C10_ListedMemberRejected ==
    [][\A p \in Tasks :
          (/\ SuggestBlacklist(p)
           /\ <<task[p].channel, task[p].user>> \in hist.listed)
          => /\ task'[p] = Idle
             /\ response'.result = "Blacklisted"
             /\ store' = store]_vars

\* ------------------------------------------------------------ dialog claims

\* C11: a command that asks for the channel answers "nothing configured"
\* without a picker when the selection setup returns no candidate, goes on
\* with the candidate when it returns exactly one, and shows the picker when
\* it returns more; a picker is left only by a choice among its options, by
\* a cancel or by the timeout.
C11_SelectionResolves ==
    [][\A p \in Tasks :
          /\ \A g \in Guilds :
                RemoveSetup(p, g) =>
                    LET channel_ids == ChannelSelectionSetup(g).channel_ids
                    IN  /\ Len(channel_ids) = 0 =>
                              task'[p] = Idle /\ response'.result = "NothingConfigured"
                        /\ Len(channel_ids) = 1 =>
                              /\ task'[p].pc = "confirm"
                              /\ task'[p].channel = channel_ids[1]
                        /\ Len(channel_ids) >= 2 => task'[p].pc = "picker"
          /\ (task[p].pc = "picker" /\ task'[p] # task[p]) =>
                \/ /\ task'[p].pc = "confirm"
                   /\ task'[p].channel \in SeqToSet(task[p].options)
                \/ /\ task'[p] = Idle
                   /\ response'.result \in {"Canceled", "TimedOut", "ChannelNotFound"}]_vars

\* The configured channels of guild g that the guild still has, in the
\* order of their config rows.
Reachable(g) ==
    LET Match(r) == r.guild_id = g /\ r.channel_id \in env.channels
        res == SelectSeq(config, Match)
    IN  [i \in 1..Len(res) |-> res[i].channel_id]

\* C12: the candidates of the selection setup are the reachable configured
\* channels of the guild in their order, and the options of a picker are
\* that same list.
C12_CandidatesAreReachable ==
    \A g \in Guilds :
        LET s == ChannelSelectionSetup(g)
        IN  /\ s.channel_ids = Reachable(g)
            /\ Len(s.channel_ids) >= 2 => s.options = s.channel_ids

\* C13: a choice or a cancel on a waiting picker by an actor other than the
\* author of the view is answered "You cannot interact with this." and
\* leaves every task, the picker's included, and the tables as they were.
C13_ForeignPickerEventRefused ==
    [][\A p \in Tasks : \A actor \in Actors \ {Author(task[p])} :
          (\/ PickerCancel(p, actor)
           \/ \E c \in Channels : PickerChoice(p, actor, c))
          => /\ task' = task
             /\ task'[p].pc = "picker"
             /\ response'.result = "CannotInteract"
             /\ config' = config]_vars

\* An actor was refused on a picker that is still waiting.
C13_RefusedWhileWaiting ==
    /\ response.result = "CannotInteract"
    /\ \E p \in Tasks : task[p].pc = "picker" /\ task[p].cmd = response.cmd

\* C14: a Confirm or Cancel on a waiting Confirmation view by an actor other
\* than the author of the view leaves the task waiting and the config table
\* as it was.
C14_ForeignConfirmRefused ==
    [][\A p \in Tasks : \A actor \in Actors \ {Author(task[p])} :
       \A confirmed \in {"True", "False"} :
          ConfirmationPress(p, actor, confirmed)
          => /\ task'[p] = task[p]
             /\ config' = config]_vars

\* C15: when the Confirmation view of remove-setup ends with True, False or
\* None, the rows of the selected channel are deleted on True and the config
\* table is left as it was on False and on None.
C15_DeleteOnlyOnConfirm ==
    [][\A p \in Tasks : \A confirmed \in {"True", "False", NULL} :
          RemoveSetupConfirmed(p, confirmed)
          => /\ task'[p] = Idle
             /\ IF confirmed = "True"
                THEN /\ config' = SelectSeq(config, LAMBDA r :
                                       ~(r.channel_id = task[p].channel
                                         /\ r.guild_id = task[p].guild))
                     /\ response'.result = "Removed"
                ELSE /\ config' = config
                     /\ response'.result # "Removed"]_vars

\* A remove-setup ended without a confirmation and the row of its channel
\* is still there.
C15_KeptAfterCancel ==
    /\ response.cmd = "remove_setup"
    /\ response.result = "OperationCanceled"
    /\ ConfigRows(response.guild, response.channel) # {}

\* ---------------------------------------------------------- admission claims

\* C16: when /suggest reads the config row of its channel, an attachment
\* was supplied and the row does not allow attachments, the command returns
\* without showing the review view and leaves store and messages alone; its
\* answer is "Attachments are not allowed" unless the channel is disabled or
\* the member lacks the required role, which are answered first.
C16_AttachmentRejected ==
    [][\A p \in Tasks :
          (/\ task[p].pc = "suggest_config"
           /\ task[p].attachment
           /\ \E i \in ConfigRows(task[p].guild, task[p].channel) :
                  config[i].allow_attachments = 0
           /\ SuggestConfig(p))
          => /\ task'[p] = Idle
             /\ store' = store
             /\ messages' = messages
             /\ response'.result \in {"Disabled", "RoleRequired", "AttachmentsNotAllowed"}
             /\ \A i \in ConfigRows(task[p].guild, task[p].channel) :
                   (/\ config[i].enabled = 1
                    /\ \/ config[i].role_id \notin env.roles
                       \/ config[i].role_id \in MemberRoles(task[p].user))
                   => response'.result = "AttachmentsNotAllowed"]_vars

\* A post with an attachment was rejected for the attachment, after another
\* post of the channel was stored.
C16_RejectedForAttachment ==
    /\ response.cmd = "suggest"
    /\ response.result = "AttachmentsNotAllowed"
    /\ Len(store) = 1
    /\ Len(messages) = 1

\* C17: every stored suggestion points to a message that was sent to its
\* channel and got both reactions; a refused send or reaction ends the form
\* with "Failed to send" and no row; and rows are only added by the INSERT
\* that follows a complete send.
C17_InsertAfterRender ==
    /\ [](\A i \in 1..Len(store) :
             /\ store[i].message_id \in 1..Len(messages)
             /\ messages[store[i].message_id].channel_id = store[i].channel_id
             /\ messages[store[i].message_id].reactions = 2)
    /\ [][\A p \in Tasks :
             /\ \A outcome \in {"send_forbidden", "reaction_forbidden", "downvote_forbidden"} :
                   (task[p].pc = "entry_send" /\ EntrySend(p, outcome))
                   => /\ task'[p] = Idle
                      /\ response'.result = "FailedToSend"
                      /\ store' = store
             /\ (task[p].pc # "entry_insert" /\ task'[p].pc = "entry_insert")
                   => /\ Len(messages') = Len(messages) + 1
                      /\ task'[p].message = Len(messages')
                      /\ messages'[task'[p].message].reactions = 2
             /\ (store' # store) => \E q \in Tasks : EntryInsert(q)]_vars

\* A form ended with "Failed to send" after its message went out without
\* its reactions: the message has no row, while an earlier post has one.
C17_FailedAfterSend ==
    /\ response.result = "FailedToSend"
    /\ Len(store) = 1
    /\ Len(messages) = 2
    /\ messages[2].reactions < 2

\* C20: a press of Post by anyone but the author of the review view is
\* refused and changes no task and no row; the review's timeout ends the
\* command with the store as it was; a task gets to the form only by the
\* author's press on its waiting review, to the send only from the form and
\* to the INSERT only from the send; and only that INSERT changes the store.
C20_InsertOnlyAfterReview ==
    [][/\ \A p \in Tasks :
          /\ \A actor \in Actors \ {Author(task[p])} :
                ReviewPress(p, actor)
                => task' = task /\ store' = store /\ response'.result = "CannotInteract"
          /\ SuggestReviewTimeout(p) => task'[p] = Idle /\ store' = store
          /\ (task[p].pc # "modal" /\ task'[p].pc = "modal")
                => task[p].pc = "review" /\ ReviewPress(p, task[p].user)
          /\ (task[p].pc # "entry_send" /\ task'[p].pc = "entry_send")
                => task[p].pc = "modal"
          /\ (task[p].pc # "entry_insert" /\ task'[p].pc = "entry_insert")
                => task[p].pc = "entry_send"
       /\ (store' # store) =>
             \E p \in Tasks : /\ EntryInsert(p)
                              /\ store' = Append(store, store'[Len(store')])
                              /\ store'[Len(store')].author_id = task[p].user]_vars

\* Someone else's press on a waiting review was refused, after another post
\* was reviewed by its author and stored.
C20_RefusedOnReview ==
    /\ response.cmd = "suggest"
    /\ response.result = "CannotInteract"
    /\ \E p \in Tasks : task[p].pc = "review"
    /\ Len(store) = 1

\* ------------------------------------------------------ failed moderations

\* C18: a moderation whose fetch_message finds the message gone answers
\* "Suggestion message not found" and leaves store, messages and notices as
\* they were; and a moderation started on a suggestion whose stored status
\* is Pending and whose channel is there is not turned away: it goes on to
\* fetch the message, and on to the UPDATE when the message is found.
C18_MissingMessageKeepsPending ==
    [][\A p \in Tasks :
          /\ (/\ task[p].pc = "fetch_message"
              /\ messages[task[p].suggestion.message_id].deleted
              /\ ModerateFetchMessage(p))
             => /\ task'[p] = Idle
                /\ response'.result = "MessageNotFound"
                /\ store' = store
                /\ messages' = messages
                /\ notices' = notices
          /\ (/\ task[p].pc = "fetch_message"
              /\ ~messages[task[p].suggestion.message_id].deleted
              /\ ModerateFetchMessage(p))
             => task'[p].pc = "update_store"
          /\ \A note \in Notes \cup {NULL} :
                (/\ started' = started + 1
                 /\ StoreRows(StartedBy(p).guild, StartedBy(p).suggestion_id) # {}
                 /\ \A i \in StoreRows(StartedBy(p).guild, StartedBy(p).suggestion_id) :
                       /\ ParseInt(store[i].status) = PENDING
                       /\ store[i].channel_id \in env.channels
                 /\ Moderate(p, StartedBy(p).guild, StartedBy(p).status,
                             StartedBy(p).suggestion_id, note))
                => task'[p].pc = "fetch_message"]_vars

\* A moderation ended with "message not found" and its suggestion is still
\* Pending, with no note and no action time.
C18_StillPendingAfterMiss ==
    /\ response.cmd = "moderate"
    /\ response.result = "MessageNotFound"
    /\ \A i \in StoreRows(response.guild, response.suggestion_id) :
           /\ messages[store[i].message_id].deleted
           /\ ParseInt(store[i].status) = PENDING
           /\ store[i].action_note = NULL
           /\ store[i].action_updated_at = NULL

\* C19: a moderation that ends with one of its error answers after it went
\* past its UPDATE leaves the rows of its suggestion as it read them when it
\* started (status, note and action time).
C19_ErrorLeavesRowAsRead ==
    [][\A p \in Tasks :
          (/\ task[p].cmd = "moderate"
           /\ task[p].pc \in {"select_config", "edit_message"}
           /\ task'[p] = Idle
           /\ response'.result \in {"InvalidId", "AlreadyActed", "MessageNotFound",
                                    "SuggestionChannelNotFound"})
          => \A i \in StoreRows(task[p].guild, task[p].suggestion_id) :
                store'[i] = task[p].suggestion]_vars

\* C22: a dialog that expires ends with the timed-out message as the last
\* message shown: the channel selection and the remove-setup confirmation
\* both end with it when their view times out.
C22_TimeoutHasOwnMessage ==
    [][\A p \in Tasks :
          (SelectTimeout(p) \/ ConfirmationTimeout(p))
          => /\ task'[p] = Idle
             /\ response'.result = "TimedOut"]_vars

\* ------------------------------------------------------------ panel claims

\* C21: the settings panel always ends: a handler that shows its panel
\* returns, after the close action or after the panel expired.
C21_PanelEnds ==
    \A p \in Tasks :
        (task[p].cmd = "settings" /\ task[p].pc = "panel") ~> (task[p].pc = "idle")

\* C23: a toggle submitted from a settings panel whose channel has no config
\* row creates no row and is not acknowledged on the panel as a change made.
C23_WriteWithoutRowFails ==
    [][\A p \in Tasks : \A value \in {0, 1} :
          (/\ \A i \in 1..Len(config) : config[i].channel_id # task[p].channel
           /\ SettingsModalSubmit(p, value))
          => /\ config' = config
             /\ task'[p].placeholder # "Acknowledged"
             /\ task'[p].labels = task[p].labels]_vars

\* C28: a toggle submitted from a settings panel whose channel has a config
\* row changes the chosen column of that row to the submitted value and
\* nothing else in the config table, and the panel's label of that setting
\* then shows the submitted value while its other labels stay.
C28_ToggleWritesOneField ==
    [][\A p \in Tasks : \A value \in {0, 1} :
          (/\ \E i \in 1..Len(config) : config[i].channel_id = task[p].channel
           /\ SettingsModalSubmit(p, value))
          => /\ \E i \in 1..Len(config) :
                   /\ config[i].channel_id = task[p].channel
                   /\ config' = [config EXCEPT ![i][task[p].modal] = value]
             /\ \A k \in 1..Len(SETTINGS) :
                   task'[p].labels[k] =
                      IF SETTINGS[k] = task[p].modal
                      THEN (IF value = 1 THEN "ENABLED" ELSE "DISABLED")
                      ELSE task[p].labels[k]
             /\ UNCHANGED <<blacklist, store>>]_vars

\* A panel of c3 has just disabled the channel: the row of c3 says so, the
\* label says so, and the rows of c1 and c2 are as they were set up.
C28_DisabledThroughPanel ==
    \E p \in Tasks :
        /\ task[p].pc = "panel"
        /\ task[p].channel = "c3"
        /\ task[p].sleeping > 0
        /\ task[p].labels[5] = "DISABLED"
        /\ \E i \in ConfigRows("g2", "c3") : config[i].enabled = 0
        /\ config[1] = Configured[1]
        /\ config[2] = Configured[2]

\* C29: after a toggle submit the placeholder shows the acknowledgement and
\* later goes back to "Settings": a shown panel with no update asleep has
\* the idle placeholder, the wake of an update leaves the labels as the
\* submits wrote them, and a panel showing the acknowledgement comes to
\* show "Settings" with every update finished (or is closed before that).
C29_PlaceholderReverts ==
    /\ [](\A p \in Tasks :
             task[p].pc = "panel" /\ task[p].sleeping = 0
             => task[p].placeholder = "Settings")
    /\ [][\A p \in Tasks :
             (/\ task[p].pc = "panel"
              /\ task'[p].pc = "panel"
              /\ task'[p].sleeping < task[p].sleeping)
             => /\ task'[p].placeholder = "Settings"
                /\ task'[p].labels = task[p].labels]_vars
    /\ \A p \in Tasks :
          (task[p].pc = "panel" /\ task[p].placeholder = "Acknowledged")
          ~> (\/ task[p].pc = "idle"
              \/ task[p].sleeping = 0 /\ task[p].placeholder = "Settings")

\* ------------------------------------------------------------ order claims

\* The author of the post of task p holds the role r.
Holds(p, r) == r \in MemberRoles(task[p].user) \cap env.roles

\* C24: when /suggest reads an enabled config row whose role_id is set to a
\* role the author does not hold, whether or not the guild still has that
\* role, the post ends there with RoleRequired and the store is unchanged.
C24_RoleRequired ==
    [][\A p \in Tasks :
          (/\ task[p].cmd = "suggest"
           /\ task[p].pc = "suggest_config"
           /\ task'[p] # task[p]
           /\ \E i \in ConfigRows(task[p].guild, task[p].channel) :
                  /\ config[i].enabled = 1
                  /\ config[i].role_id # NULL
                  /\ ~Holds(p, config[i].role_id))
          => /\ task'[p] = Idle
             /\ response'.result = "RoleRequired"
             /\ store' = store]_vars

\* The fixed order of the rejections of a post.
RejectionOrder ==
    <<"Blacklisted", "NotConfigured", "Disabled", "RoleRequired",
      "AttachmentsNotAllowed">>

\* The preconditions the post of task p fails on the tables as they are.
FailingOf(p) ==
    LET rows == ConfigRows(task[p].guild, task[p].channel)
        data == config[CHOOSE i \in rows : TRUE]
    IN  {x \in {"Blacklisted"} : BlacklistRows(task[p].channel, task[p].user) # {}}
        \cup {x \in {"NotConfigured"} : rows = {}}
        \cup {x \in {"Disabled"} : rows # {} /\ data.enabled = 0}
        \cup {x \in {"RoleRequired"} :
                 rows # {} /\ data.role_id # NULL /\ ~Holds(p, data.role_id)}
        \cup {x \in {"AttachmentsNotAllowed"} :
                 rows # {} /\ task[p].attachment /\ data.allow_attachments = 0}

\* The first rejection of the fixed order among those of the set failing.
FirstOf(failing) ==
    RejectionOrder[CHOOSE k \in 1..Len(RejectionOrder) :
                      /\ RejectionOrder[k] \in failing
                      /\ \A j \in 1..(k - 1) : RejectionOrder[j] \notin failing]

\* C25: a post that fails several preconditions at once is rejected with
\* the first of them in the fixed order and leaves the store unchanged: at
\* its blacklist check when the author has an entry for the channel, at its
\* config check otherwise.
C25_FirstFailingReported ==
    [][\A p \in Tasks :
          (/\ task[p].cmd = "suggest"
           /\ task'[p] # task[p]
           /\ Cardinality(FailingOf(p)) >= 2
           /\ \/ task[p].pc = "suggest_blacklist" /\ "Blacklisted" \in FailingOf(p)
              \/ task[p].pc = "suggest_config" /\ "Blacklisted" \notin FailingOf(p))
          => /\ task'[p] = Idle
             /\ response'.result = FirstOf(FailingOf(p))
             /\ store' = store]_vars

\* ----------------------------------------------------------- notice claims

\* C27: when a moderation has edited the suggestion message it ends with a
\* success acknowledgement: the plain one, with no notice sent, when the
\* channel's action_notification_enabled was read as off, and otherwise one
\* that says what became of the notice; a notice is delivered only with the
\* "notified" acknowledgement, and whether or not it was delivered the rows
\* of the suggestion keep the resolved status the call wrote.
C27_NoticeFailureStillSucceeds ==
    [][\A p \in Tasks :
          (/\ task[p].cmd = "moderate"
           /\ task[p].pc = "edit_message"
           /\ task'[p] # task[p]
           /\ ~messages[task[p].message].deleted)
          => /\ task'[p] = Idle
             /\ response'.result \in
                   (IF task[p].notify = 1
                    THEN {"UpdatedNotified", "UpdatedAuthorLeft", "UpdatedNotNotified"}
                    ELSE {"Updated"})
             /\ (notices' # notices) <=> (response'.result = "UpdatedNotified")
             /\ store' = store
             /\ \A i \in StoreRows(task[p].guild, task[p].suggestion_id) :
                   /\ ParseInt(store'[i].status) \in Statuses
                   /\ store'[i].action_updated_at # NULL]_vars

\* A moderation of a suggestion of c1, where notices are switched on, ended
\* with the acknowledgement that the author could not be notified: no
\* notice went out and the suggestion is resolved.
C27_ResolvedWithoutNotice ==
    /\ response.cmd = "moderate"
    /\ response.result \in {"UpdatedAuthorLeft", "UpdatedNotNotified"}
    /\ notices = <<>>
    /\ \A i \in StoreRows(response.guild, response.suggestion_id) :
           /\ store[i].channel_id = "c1"
           /\ ParseInt(store[i].status) = response.status

\* ------------------------------------------------------------ frame claims

\* C26: no step removes a row of store or changes a row it holds, except the
\* UPDATE of a moderation, which changes the status, the action time and the
\* action note of the rows of its own suggestion and nothing else of them.
C26_RecordsOnlyModerated ==
    [][/\ Len(store') >= Len(store)
       /\ \A i \in 1..Len(store) :
             \/ store'[i] = store[i]
             \/ \E p \in Tasks :
                   /\ task[p].cmd = "moderate"
                   /\ task[p].pc = "update_store"
                   /\ task'[p].pc = "select_config"
                   /\ store[i].guild_id = task[p].guild
                   /\ store[i].id = task[p].suggestion_id
                   /\ store'[i] = [store[i] EXCEPT
                                     !.status = store'[i].status,
                                     !.action_updated_at = store'[i].action_updated_at,
                                     !.action_note = store'[i].action_note]]_vars

\* remove-setup has removed the config row of c3 and the suggestion posted
\* there is still stored as it was posted.
C26_KeptAfterRemoveSetup ==
    /\ response.cmd = "remove_setup"
    /\ response.result = "Removed"
    /\ ConfigRows("g2", "c3") = {}
    /\ \E i \in StoreRows("g2", 1) :
           /\ store[i].channel_id = "c3"
           /\ ParseInt(store[i].status) = PENDING

\* The commands that start with prompt_channel_select.
SelectionCmds ==
    {"suggest", "remove_setup", "settings", "restrict", "unrestrict",
     "blacklist_add", "blacklist_remove"}

\* C30: a command that starts with the channel selection and whose picker
\* is canceled or times out, or whose guild has no config row when it is
\* issued, returns in that step, and that step leaves the config, blacklist
\* and store tables as they were; so does every other step that ends a
\* selection without a channel.
C30_NoChannelNoChange ==
    [][\A p \in Tasks :
          /\ (SelectCancel(p) \/ SelectTimeout(p))
             => /\ task'[p] = Idle
                /\ response'.result \in {"Canceled", "TimedOut"}
                /\ UNCHANGED <<config, blacklist, store>>
          /\ (/\ task[p].pc = "idle"
              /\ \A q \in Tasks : q < p => task[q].pc # "idle"
              /\ started' = started + 1
              /\ StartedBy(p).cmd \in SelectionCmds
              /\ \A i \in 1..Len(config) : config[i].guild_id # StartedBy(p).guild)
             => /\ task'[p] = Idle
                /\ response'.result = "NothingConfigured"
                /\ UNCHANGED <<config, blacklist, store>>
          /\ (/\ task[p].pc \in {"idle", "picker"}
              /\ task'[p] = Idle
              /\ response' # response
              /\ response'.cmd \in SelectionCmds
              /\ response'.result \in {"Canceled", "TimedOut", "NothingConfigured",
                                       "ChannelNotFound"})
             => UNCHANGED <<config, blacklist, store>>]_vars

\* A blacklist remove ended with its picker canceled and the entry it was
\* issued for is still in the table.
C30_CanceledRemoveKeepsEntry ==
    /\ response.cmd = "blacklist_remove"
    /\ response.result = "Canceled"
    /\ BlacklistRows("c1", "u1") # {}
    /\ Len(config) = 2

\* The settings panel of c3 with its modals, which may outlive the panel.
NextEnded ==
    \E p \in Tasks :
        \/ Settings(p, "g2")
        \/ SettingsSetup(p)
        \/ \E value \in {"enabled", "allow_anonymous"} : SettingsSelect(p, value)
        \/ \E value \in {0, 1} : SettingsModalSubmit(p, value)
        \/ SettingsUpdateWake(p)
        \/ SettingsClose(p)
        \/ SettingsCloseModalOpen(p)
        \/ \E value \in {0, 1} : SettingsModalSubmitEnded(p, value)
        \/ SettingsModalDismiss(p)
        \/ SettingsTimeout(p)

SpecEnded == InitConfigured /\ [][NextEnded]_vars

\* The three channels configured, c3 with anonymous suggestions allowed or not.
InitAnonymous ==
    /\ \E allow \in {0, 1} :
          config = [Configured EXCEPT ![3].allow_anonymous = allow]
    /\ blacklist = <<>>
    /\ store = <<>>
    /\ messages = <<>>
    /\ notices = <<>>
    /\ env = [channels |-> Channels, roles |-> Roles]
    /\ task = [p \in Tasks |-> Idle]
    /\ response = NoResponse
    /\ started = 0
    /\ hist = [raced |-> {}, listed |-> {},
               reason |-> [cu \in Channels \X Users |-> NULL]]

\* Posts into c3, named or anonymous, beside a panel toggling allow_anonymous.
NextAnonymous ==
    \E p \in Tasks :
        \/ Suggest(p, "g2", "u1", FALSE)
        \/ SuggestBlacklist(p)
        \/ SuggestConfig(p)
        \/ SuggestReviewPost(p)
        \/ \E is_anonymous \in {0, 1} : EntryModalSubmit(p, is_anonymous)
        \/ EntrySend(p, "sent")
        \/ EntryInsert(p)
        \/ Settings(p, "g2")
        \/ SettingsSetup(p)
        \/ SettingsSelect(p, "allow_anonymous")
        \/ \E value \in {0, 1} : SettingsModalSubmit(p, value)
        \/ SettingsUpdateWake(p)
        \/ SettingsClose(p)

SpecAnonymous == InitAnonymous /\ [][NextAnonymous]_vars

\* ---------------------------------------------------------- snapshot claims

\* C31: in the step that inserts a suggestion record, the author has no
\* blacklist entry for the channel and the channel has a config row with
\* enabled = 1, whatever completed while the review view or the form was open.
C31_InsertUnderCurrentRules ==
    [][\A p \in Tasks :
          (/\ task[p].cmd = "suggest"
           /\ task[p].pc = "entry_insert"
           /\ Len(store') = Len(store) + 1
           /\ task'[p] # task[p])
          => /\ BlacklistRows(task[p].channel, task[p].user) = {}
             /\ \E i \in ConfigRows(task[p].guild, task[p].channel) :
                   config[i].enabled = 1]_vars

\* C32: a Pending record has neither action_updated_at nor action_note, a
\* resolved record has action_updated_at; a record is created Pending, and
\* the step that changes one of status, action_updated_at and action_note of
\* a record is a moderation's UPDATE, which writes the three together.
C32_ActionFieldsTogether ==
    /\ [](\A i \in 1..Len(store) :
            IF ParseInt(store[i].status) = PENDING
            THEN store[i].action_updated_at = NULL /\ store[i].action_note = NULL
            ELSE store[i].action_updated_at # NULL)
    /\ [][/\ Len(store') >= Len(store)
          /\ \A i \in (Len(store) + 1)..Len(store') :
                /\ ParseInt(store'[i].status) = PENDING
                /\ store'[i].action_updated_at = NULL
                /\ store'[i].action_note = NULL
          /\ \A i \in 1..Len(store) :
                (\/ store'[i].status # store[i].status
                 \/ store'[i].action_updated_at # store[i].action_updated_at
                 \/ store'[i].action_note # store[i].action_note)
                => \E p \in Tasks :
                      /\ task[p].cmd = "moderate"
                      /\ task[p].pc = "update_store"
                      /\ task'[p] # task[p]
                      /\ store[i].guild_id = task[p].guild
                      /\ store[i].id = task[p].suggestion_id
                      /\ store'[i].status = StatusText(task[p].status)
                      /\ store'[i].action_updated_at # NULL
                      /\ store'[i].action_note = task[p].note]_vars

\* A resolved record carrying its timestamp and note beside a record that a
\* post has just created.
C32_ResolvedBesidePending ==
    \E i, j \in 1..Len(store) :
        /\ ParseInt(store[i].status) = ACCEPTED
        /\ store[i].action_updated_at # NULL
        /\ store[i].action_note = "great"
        /\ j > 1
        /\ ParseInt(store[j].status) = PENDING

\* The footer a message carries for a status: "Status: Pending" as on_submit
\* renders it, the capitalized name as update_suggestion_status renders it.
StatusMarker(status) ==
    IF status = PENDING THEN "Pending" ELSE StatusFriendly(status)

\* C33: whenever no moderation is in flight, the footer of a suggestion's
\* message, while the message exists, names the status stored for the
\* suggestion; also when the channel's config row was removed before the
\* suggestion was moderated.
C33_FooterIsStoredStatus ==
    (\A p \in Tasks : task[p].cmd # "moderate")
    => \A i \in 1..Len(store) :
          ~messages[store[i].message_id].deleted
          => messages[store[i].message_id].footer
                = StatusMarker(ParseInt(store[i].status))

\* C34: once a settings panel has ended, by Close or by its timeout, no step
\* made for that panel writes config, a modal opened before the end and
\* submitted after it included.
C34_EndedPanelWritesNothing ==
    [][\A p \in Tasks :
          (/\ task[p].cmd = "settings"
           /\ task[p].pc \in {"ended", "spin"}
           /\ task'[p] # task[p])
          => config' = config]_vars

\* C35: a form submitted as anonymous under a config row, read when the
\* command started, with allow_anonymous = 0 is rejected with nothing sent
\* and nothing stored; a message is sent and a record stored as anonymous
\* only under a row read with allow_anonymous = 1.
C35_AnonymousBySnapshot ==
    [][\A p \in Tasks :
          /\ (/\ task[p].cmd = "suggest"
               /\ task[p].data # NoRow
               /\ task[p].data.allow_anonymous = 0
               /\ EntryModalSubmit(p, 1))
              => /\ task'[p] = Idle
                 /\ response'.cmd = "suggest"
                 /\ response'.result = "AnonymousNotAllowed"
                 /\ messages' = messages
                 /\ store' = store
          /\ (/\ task[p].cmd = "suggest"
               /\ task[p].pc \in {"entry_send", "entry_insert"}
               /\ task'[p] # task[p]
               /\ task[p].is_anonymous = 1
               /\ \/ Len(messages') > Len(messages)
                  \/ Len(store') > Len(store))
              => task[p].data.allow_anonymous = 1
          /\ \A i \in (Len(store) + 1)..Len(store') :
                store'[i].anonymous = 1
                => \E q \in Tasks : /\ task[q].pc = "entry_insert"
                                    /\ task'[q] # task[q]
                                    /\ task[q].data.allow_anonymous = 1]_vars

\* An anonymous form was rejected on the row read at the start although the
\* panel has allowed anonymous suggestions since.
C35_RejectedOnSnapshot ==
    /\ response.cmd = "suggest"
    /\ response.result = "AnonymousNotAllowed"
    /\ ConfigByChannel("c3").allow_anonymous = 1
    /\ store = <<>>
    /\ messages = <<>>

\* ------------------------------------------------------------- frame claims

\* config after the role_id of the row of channel c, if there is one, was
\* set to r and nothing else.
OnlyRoleSet(c, r) ==
    /\ Len(config') = Len(config)
    /\ \A i \in 1..Len(config) :
          config'[i] = IF config[i].channel_id = c
                       THEN [config[i] EXCEPT !.role_id = r]
                       ELSE config[i]

C37_RemoveDeletesThePair ==
    [][\A p \in Tasks :
          (/\ task[p].cmd = "blacklist_remove"
           /\ task[p].pc = "blacklist_delete"
           /\ task'[p] # task[p])
          => LET c == task[p].channel
                 u == task[p].target
                 Other(r) == r.channel_id # c \/ r.user_id # u
                 Match(r) == r.guild_id = task[p].guild /\ r.user_id = u
                                /\ r.channel_id = c
             IN  /\ \A i \in 1..Len(blacklist') : Other(blacklist'[i])
                 /\ SelectSeq(blacklist', Match) = <<>>
                 /\ blacklist' = SelectSeq(blacklist, Other)
                 /\ (\A i \in 1..Len(blacklist) : Other(blacklist[i]))
                       => blacklist' = blacklist
                 /\ response'.result = "Removed"
                 /\ UNCHANGED <<config, store>>]_vars

\* u1 was removed from the blacklist of c1 and no row names u1 any more,
\* while a row of another user is still there.
C37_RemovedBesideOthers ==
    /\ response.cmd = "blacklist_remove"
    /\ response.result = "Removed"
    /\ response.channel = "c1"
    /\ \A i \in 1..Len(blacklist) : blacklist[i].user_id = "u2"
    /\ blacklist # <<>>

====
